---------------------------- MODULE Spec2Model ----------------------------
(***************************************************************************)
(* A model of text/text.py (the pattern-derived text toolkit of TextBlob): *)
(* the lazy containers, the tokenizer, the part-of-speech tagger, the      *)
(* sentiment scorer, the shallow parser and the tagged-string codec.       *)
(*                                                                         *)
(* Python strings are modelled as sequences of one-character strings, so   *)
(* that replace/split/join/startswith are computed, not assumed.           *)
(* Each component has its own specification (SpecLazy, SpecTagged, ...);   *)
(* the variables of the other components stay at their idle value.         *)
(***************************************************************************)
EXTENDS Integers, Sequences, FiniteSets, TLC

VARIABLES
    \* ---- lazydict / lazylist instance (one instance per behaviour)
    lzKind,     \* "dict", "list" or "idle"
    lzSrc,      \* what the overridden load() puts into the container
    dStore,     \* backing dict: a function from a set of keys to values
    lStore,     \* backing list: a sequence of values
    lzLoads,    \* how many times load() has run on this instance
    lzBound,    \* methods rebound on the instance by setattr in _lazy
    lzRet,      \* outcome of the last call: "ok" or the exception raised
    \* ---- TaggedString codec
    tsPc,       \* "build" (the caller fills the list), "made", "split", "idle"
    tsInput,    \* the nested sentence/token/field list given to TaggedString
    tsObj,      \* the TaggedString: [string, tags, language]
    tsOut,      \* what TaggedString.split() returned
    \* ---- Sentiment scorer
    snMode,     \* how the words reach assessments: "dict", "list", "pairs"
    snNegation, \* the negation argument
    snWords,    \* the (word, pos) pairs consumed so far, None pairs included
    snA,        \* a: the assessments built so far
    snM,        \* m: the pending modifier (word, pos), or NONE
    snN,        \* n: the pending negation word, or NONE
    snPc,       \* "scan", "done", "error" (an exception left the loop), "idle"
    snOut,      \* the assessments returned
    \* ---- find_tags
    tgTokens,   \* the tokens argument
    tgLexicon,  \* the lexicon argument: a plain dict of word -> tag
    tgLanguage, \* the language argument
    tgPc,       \* "build" (the caller builds the token list), "done", "idle"
    tgOut,      \* the [token, tag] list returned
    \* ---- Parser.parse
    paFlags,    \* the tags, chunks, relations and lemmata arguments
    paLexicon,  \* Parser.lexicon: a plain dict of word -> tag
    paInput,    \* s: a list of sentences, each a list of words (tokenize=False)
    paPc,       \* "build" (the caller builds s), "done", "idle"
    paOut,      \* the TaggedString returned: [string, tags, language]
    \* ---- find_tokens
    tkPieces,   \* the pieces the input string is written from, in order
    tkPc,       \* "build" (the caller writes the string), "done", "idle"
    tkRaw,      \* the whitespace-separated raw tokens TOKEN.findall returned
    tkTokens,   \* tokens: the token list after the punctuation loop
    tkOut,      \* the list of sentences returned
    \* named entities (Entities)
    enDict,     \* the Entities dictionary: first word -> list of entries
    enTokens,   \* the token list, each token a <<word, tag>> pair
    enBefore,   \* the token list as it was before the last apply
    enPc,       \* "build", then "applied" and "again" after one and two calls of apply
    \* morphological rules (Morphology)
    moSrc,      \* the lines of the rule source the list loads from
    moRules,    \* the list store: the rules, each a list of fields
    moBound,    \* TRUE once _lazy has bound list.insert to the instance
    moArgs,     \* the arguments of the last insert or append that stored a rule
    moToken,    \* the [word, tag] token last given to apply
    moOut,      \* what the last call returned or raised
    \* contextual rules (Context)
    coSrc,      \* the lines of the rule source the list loads from
    coRules,    \* the list store: the rules, each a list of fields
    coBound,    \* TRUE once _lazy has bound list.insert to the instance
    coTokens,   \* the list of [word, tag] tokens given to apply, if it was the last call
    coOut,      \* what the last call returned or raised
    \* the Sentiment lexicon file (Sentiment.__init__, Sentiment.load)
    lxArg,      \* the confidence argument given to the constructor, or NONE
    lxConfidence, \* self._confidence
    lxLanguage, \* self._language
    lxExists,   \* whether a file exists at self._path
    lxRoot,     \* the language attribute of the root element of the file
    lxXml,      \* the word elements of the file, in document order
    lxWords,    \* the dict itself: word -> part-of-speech tag -> score
    lxLabeler,  \* self.labeler: word -> label
    lxSynsets,  \* self._synsets: synset id -> score
    lxPc,       \* "build" (the file is written), "loaded", "idle"
    \* universal tagset (penntreebank2universal)
    unToken,    \* the token argument
    unTag,      \* the tag argument
    unPc,       \* "call" (the arguments are chosen), "done", "idle"
    unOut,      \* the (token, tag) tuple returned
    \* TaggedString constructed from a text value
    cpString,   \* the string argument: a plain str or a TaggedString
    cpTags,     \* the tags argument
    cpLanguage, \* the language argument
    cpPc,       \* "call" (the arguments are chosen), "made", "idle"
    cpObj       \* the TaggedString returned

lazyVars == <<lzKind, lzSrc, dStore, lStore, lzLoads, lzBound, lzRet>>

taggedVars == <<tsPc, tsInput, tsObj, tsOut>>

sentVars == <<snMode, snNegation, snWords, snA, snM, snN, snPc, snOut>>

tagVars == <<tgTokens, tgLexicon, tgLanguage, tgPc, tgOut>>

parseVars == <<paFlags, paLexicon, paInput, paPc, paOut>>

tokVars == <<tkPieces, tkPc, tkRaw, tkTokens, tkOut>>

entVars == <<enDict, enTokens, enBefore, enPc>>

morphVars == <<moSrc, moRules, moBound, moArgs, moToken, moOut>>

contextVars == <<coSrc, coRules, coBound, coTokens, coOut>>

lexVars == <<lxArg, lxConfidence, lxLanguage, lxExists, lxRoot, lxXml, lxWords, lxLabeler, lxSynsets, lxPc>>

univVars == <<unToken, unTag, unPc, unOut>>

copyVars == <<cpString, cpTags, cpLanguage, cpPc, cpObj>>

vars == <<lazyVars, taggedVars, sentVars, tagVars, parseVars, tokVars, entVars, morphVars, contextVars, lexVars, univVars, copyVars>>

\* What an operation of one component leaves alone: the other components.
notLazy == <<taggedVars, sentVars, tagVars, parseVars, tokVars, entVars, morphVars, contextVars, lexVars, univVars, copyVars>>

notTagged == <<lazyVars, sentVars, tagVars, parseVars, tokVars, entVars, morphVars, contextVars, lexVars, univVars, copyVars>>

notSent == <<lazyVars, taggedVars, tagVars, parseVars, tokVars, entVars, morphVars, contextVars, lexVars, univVars, copyVars>>

notCopy == <<lazyVars, taggedVars, sentVars, tagVars, parseVars, tokVars, entVars, morphVars, contextVars, lexVars, univVars>>

notUniversal == <<lazyVars, taggedVars, sentVars, tagVars, parseVars, tokVars, entVars, morphVars, contextVars, lexVars, copyVars>>

notLexicon == <<lazyVars, taggedVars, sentVars, tagVars, parseVars, tokVars, entVars, morphVars, contextVars, univVars, copyVars>>

notContext == <<lazyVars, taggedVars, sentVars, tagVars, parseVars, tokVars, entVars, morphVars, lexVars, univVars, copyVars>>

notMorphology == <<lazyVars, taggedVars, sentVars, tagVars, parseVars, tokVars, entVars, contextVars, lexVars, univVars, copyVars>>

notEntities == <<lazyVars, taggedVars, sentVars, tagVars, parseVars, tokVars, morphVars, contextVars, lexVars, univVars, copyVars>>

notTokens == <<lazyVars, taggedVars, sentVars, tagVars, parseVars, entVars, morphVars, contextVars, lexVars, univVars, copyVars>>

notParse == <<lazyVars, taggedVars, sentVars, tagVars, tokVars, entVars, morphVars, contextVars, lexVars, univVars, copyVars>>

notTags == <<lazyVars, taggedVars, sentVars, parseVars, tokVars, entVars, morphVars, contextVars, lexVars, univVars, copyVars>>

(***************************************************************************)
(* Generic helpers                                                         *)
(***************************************************************************)
Range(s) == {s[i] : i \in DOMAIN s}

Min(a, b) == IF a < b THEN a ELSE b

Max(a, b) == IF a > b THEN a ELSE b

\* The empty dict.
EmptyDict == [k \in {} |-> 0]

(***************************************************************************)
(* Python str operations on sequences of characters                        *)
(***************************************************************************)
\* s[i:i+len(p)] == p, with i counted from 1.
IsPrefixAt(s, p, i) ==
    /\ i + Len(p) - 1 <= Len(s)
    /\ \A j \in 1..Len(p) : s[i + j - 1] = p[j]

StartsWith(s, p) == IsPrefixAt(s, p, 1)

EndsWith(s, p) == Len(p) <= Len(s) /\ IsPrefixAt(s, p, Len(s) - Len(p) + 1)

\* x in s, for strings: p occurs in s.
Contains(s, p) == \E i \in 1..(Len(s) + 1) : IsPrefixAt(s, p, i)

\* s.replace(pat, rep): the non-overlapping occurrences, left to right.
RECURSIVE ReplaceFrom(_, _, _, _)
ReplaceFrom(s, pat, rep, i) ==
    IF i > Len(s) THEN <<>>
    ELSE IF IsPrefixAt(s, pat, i)
         THEN rep \o ReplaceFrom(s, pat, rep, i + Len(pat))
         ELSE <<s[i]>> \o ReplaceFrom(s, pat, rep, i + 1)

Replace(s, pat, rep) == ReplaceFrom(s, pat, rep, 1)

\* s.split(sep) with an explicit separator: empty pieces are kept.
RECURSIVE SplitFrom(_, _, _, _)
SplitFrom(s, sep, i, cur) ==
    IF i > Len(s) THEN <<cur>>
    ELSE IF IsPrefixAt(s, sep, i)
         THEN <<cur>> \o SplitFrom(s, sep, i + Len(sep), <<>>)
         ELSE SplitFrom(s, sep, i + 1, Append(cur, s[i]))

Split(s, sep) == SplitFrom(s, sep, 1, <<>>)

\* sep.join(parts)
RECURSIVE Join(_, _)
Join(sep, parts) ==
    IF Len(parts) = 0 THEN <<>>
    ELSE IF Len(parts) = 1 THEN parts[1]
         ELSE parts[1] \o sep \o Join(sep, Tail(parts))

\* [f(x) for x in seq]
Map(f(_), seq) == [i \in 1..Len(seq) |-> f(seq[i])]

(***************************************************************************)
(* LAZY CONTAINERS (lazydict, lazylist)                                    *)
(***************************************************************************)
\* Bounds of the lazy-container model.
MaxVal == 2

MaxLen == 2

MaxLoads == 3

Vals == 1..MaxVal

Keys == {"k1", "k2"}

\* Every dict over Keys / every list over Vals of length at most n.
Dicts == UNION {[D -> Vals] : D \in SUBSET Keys}

Lists(n) == UNION {[1..m -> Vals] : m \in 0..n}

\* Methods reached through the type (len(x), x[k], k in x, iter(x), repr(x)):
\* Python looks special methods up on the class, so the instance attribute
\* written by setattr in _lazy never shadows them.
Dunder == {"__repr__", "__len__", "__iter__", "__contains__",
           "__getitem__", "__setitem__"}

\* load() of a subclass: Lexicon.load is dict.update(self, ...),
\* Morphology.load / Context.load are list.extend(self, ...).
DictUpdate(d, e) ==
    [k \in (DOMAIN d) \cup (DOMAIN e) |-> IF k \in DOMAIN e THEN e[k] ELSE d[k]]

DictLoad(d) == DictUpdate(d, lzSrc)

ListLoad(l) == l \o lzSrc

DictRemove(d, k) == [x \in (DOMAIN d) \ {k} |-> d[x]]

ListInsert(l, i, v) ==
    SubSeq(l, 1, Min(i, Len(l))) \o <<v>> \o SubSeq(l, Min(i, Len(l)) + 1, Len(l))

ListRemove(l, v) ==
    LET i == CHOOSE j \in 1..Len(l) :
                 l[j] = v /\ \A h \in 1..(j - 1) : l[h] # v
    IN  SubSeq(l, 1, i - 1) \o SubSeq(l, i + 1, Len(l))

\* The plain dict method: the store it leaves and the exception it raises.
\* a is the argument record [k, v, other]; popitem removes the key a.k.
DictMethod(method, d, a) ==
    CASE method \in {"__repr__", "__len__", "__iter__", "__contains__",
                     "get", "items", "keys", "values"} ->
             [store |-> d, ret |-> "ok"]
      [] method = "__getitem__" ->
             [store |-> d, ret |-> IF a.k \in DOMAIN d THEN "ok" ELSE "KeyError"]
      [] method = "__setitem__" ->
             [store |-> DictUpdate(d, [x \in {a.k} |-> a.v]), ret |-> "ok"]
      [] method = "setdefault" ->
             [store |-> IF a.k \in DOMAIN d THEN d
                        ELSE DictUpdate(d, [x \in {a.k} |-> a.v]),
              ret |-> "ok"]
      [] method = "update" ->
             [store |-> DictUpdate(d, a.other), ret |-> "ok"]
      [] method = "pop" ->
             IF a.k \in DOMAIN d THEN [store |-> DictRemove(d, a.k), ret |-> "ok"]
             ELSE [store |-> d, ret |-> "KeyError"]
      [] method = "popitem" ->
             IF DOMAIN d = {} THEN [store |-> d, ret |-> "KeyError"]
             ELSE [store |-> DictRemove(d, a.k), ret |-> "ok"]

\* The plain list method. a is the argument record [i, v, other]; pop() takes
\* the last element.
ListMethod(method, l, a) ==
    CASE method \in {"__repr__", "__len__", "__iter__", "__contains__"} ->
             [store |-> l, ret |-> "ok"]
      [] method = "__getitem__" ->
             [store |-> l, ret |-> IF a.i < Len(l) THEN "ok" ELSE "IndexError"]
      [] method = "__setitem__" ->
             IF a.i < Len(l) THEN [store |-> [l EXCEPT ![a.i + 1] = a.v], ret |-> "ok"]
             ELSE [store |-> l, ret |-> "IndexError"]
      [] method = "insert" ->
             [store |-> ListInsert(l, a.i, a.v), ret |-> "ok"]
      [] method = "append" ->
             [store |-> Append(l, a.v), ret |-> "ok"]
      [] method = "extend" ->
             [store |-> l \o a.other, ret |-> "ok"]
      [] method = "remove" ->
             IF a.v \in Range(l) THEN [store |-> ListRemove(l, a.v), ret |-> "ok"]
             ELSE [store |-> l, ret |-> "ValueError"]
      [] method = "pop" ->
             IF Len(l) = 0 THEN [store |-> l, ret |-> "IndexError"]
             ELSE [store |-> SubSeq(l, 1, Len(l) - 1), ret |-> "ok"]

\* Whether _lazy finds the backing store empty, and so calls load().
DictNeedsLoad(d) == DOMAIN d = {}

ListNeedsLoad(l) == Len(l) = 0

\* lazydict._lazy(method, *args): load when the dict is empty, rebind the
\* method on the instance, then delegate to dict.method.
lazydict_lazy(method, a) ==
    LET need == DictNeedsLoad(dStore)
        d    == IF need THEN DictLoad(dStore) ELSE dStore
        r    == DictMethod(method, d, a)
    IN  /\ need => lzLoads < MaxLoads
        /\ lzLoads' = IF need THEN lzLoads + 1 ELSE lzLoads
        /\ lzBound' = IF need THEN lzBound \cup {method} ELSE lzBound
        /\ dStore' = r.store
        /\ lzRet' = r.ret
        /\ UNCHANGED <<lzKind, lzSrc, lStore>>

\* A method already rebound on the instance: dict.method runs directly.
lazydict_bound(method, a) ==
    LET r == DictMethod(method, dStore, a)
    IN  /\ dStore' = r.store
        /\ lzRet' = r.ret
        /\ UNCHANGED <<lzKind, lzSrc, lStore, lzLoads, lzBound>>

\* obj.method(*args) on a lazydict.
lazydict_call(method, a) ==
    IF method \in lzBound /\ method \notin Dunder
    THEN lazydict_bound(method, a)
    ELSE lazydict_lazy(method, a)

\* lazylist._lazy(method, *args).
lazylist_lazy(method, a) ==
    LET need == ListNeedsLoad(lStore)
        l    == IF need THEN ListLoad(lStore) ELSE lStore
        r    == ListMethod(method, l, a)
    IN  /\ need => lzLoads < MaxLoads
        /\ Len(r.store) <= MaxLen
        /\ lzLoads' = IF need THEN lzLoads + 1 ELSE lzLoads
        /\ lzBound' = IF need THEN lzBound \cup {method} ELSE lzBound
        /\ lStore' = r.store
        /\ lzRet' = r.ret
        /\ UNCHANGED <<lzKind, lzSrc, dStore>>

lazylist_bound(method, a) ==
    LET r == ListMethod(method, lStore, a)
    IN  /\ Len(r.store) <= MaxLen
        /\ lStore' = r.store
        /\ lzRet' = r.ret
        /\ UNCHANGED <<lzKind, lzSrc, dStore, lzLoads, lzBound>>

lazylist_call(method, a) ==
    IF method \in lzBound /\ method \notin Dunder
    THEN lazylist_bound(method, a)
    ELSE lazylist_lazy(method, a)

NoArg == [k |-> "k1", i |-> 0, v |-> 1, other |-> <<>>]

\* ---- the public operations of lazydict
lazydict_repr ==
    /\ lzKind = "dict"
    /\ lazydict_call("__repr__", NoArg)
    /\ UNCHANGED notLazy

lazydict_len ==
    /\ lzKind = "dict"
    /\ lazydict_call("__len__", NoArg)
    /\ UNCHANGED notLazy

lazydict_iter ==
    /\ lzKind = "dict"
    /\ lazydict_call("__iter__", NoArg)
    /\ UNCHANGED notLazy

lazydict_contains ==
    /\ lzKind = "dict"
    /\ \E k \in Keys : lazydict_call("__contains__", [NoArg EXCEPT !.k = k])
    /\ UNCHANGED notLazy

lazydict_getitem ==
    /\ lzKind = "dict"
    /\ \E k \in Keys : lazydict_call("__getitem__", [NoArg EXCEPT !.k = k])
    /\ UNCHANGED notLazy

lazydict_setitem ==
    /\ lzKind = "dict"
    /\ \E k \in Keys, v \in Vals :
       lazydict_call("__setitem__", [NoArg EXCEPT !.k = k, !.v = v])
    /\ UNCHANGED notLazy

lazydict_setdefault ==
    /\ lzKind = "dict"
    /\ \E k \in Keys, v \in Vals :
       lazydict_call("setdefault", [NoArg EXCEPT !.k = k, !.v = v])
    /\ UNCHANGED notLazy

lazydict_get ==
    /\ lzKind = "dict"
    /\ \E k \in Keys : lazydict_call("get", [NoArg EXCEPT !.k = k])
    /\ UNCHANGED notLazy

lazydict_items ==
    /\ lzKind = "dict"
    /\ lazydict_call("items", NoArg)
    /\ UNCHANGED notLazy

lazydict_keys ==
    /\ lzKind = "dict"
    /\ lazydict_call("keys", NoArg)
    /\ UNCHANGED notLazy

lazydict_values ==
    /\ lzKind = "dict"
    /\ lazydict_call("values", NoArg)
    /\ UNCHANGED notLazy

lazydict_update ==
    /\ lzKind = "dict"
    /\ \E o \in Dicts : lazydict_call("update", [NoArg EXCEPT !.other = o])
    /\ UNCHANGED notLazy

lazydict_pop ==
    /\ lzKind = "dict"
    /\ \E k \in Keys : lazydict_call("pop", [NoArg EXCEPT !.k = k])
    /\ UNCHANGED notLazy

\* popitem removes some item of the (loaded) dict.
lazydict_popitem ==
    /\ lzKind = "dict"
    /\ \E k \in Keys :
        /\ LET d == IF DictNeedsLoad(dStore) /\ ("popitem" \notin lzBound)
                    THEN DictLoad(dStore) ELSE dStore
           IN  DOMAIN d # {} => k \in DOMAIN d
        /\ lazydict_call("popitem", [NoArg EXCEPT !.k = k])
    /\ UNCHANGED notLazy

\* ---- the public operations of lazylist
lazylist_repr ==
    /\ lzKind = "list"
    /\ lazylist_call("__repr__", NoArg)
    /\ UNCHANGED notLazy

lazylist_len ==
    /\ lzKind = "list"
    /\ lazylist_call("__len__", NoArg)
    /\ UNCHANGED notLazy

lazylist_iter ==
    /\ lzKind = "list"
    /\ lazylist_call("__iter__", NoArg)
    /\ UNCHANGED notLazy

lazylist_contains ==
    /\ lzKind = "list"
    /\ \E v \in Vals : lazylist_call("__contains__", [NoArg EXCEPT !.v = v])
    /\ UNCHANGED notLazy

lazylist_insert ==
    /\ lzKind = "list"
    /\ \E i \in 0..MaxLen, v \in Vals :
       lazylist_call("insert", [NoArg EXCEPT !.i = i, !.v = v])
    /\ UNCHANGED notLazy

lazylist_append ==
    /\ lzKind = "list"
    /\ \E v \in Vals : lazylist_call("append", [NoArg EXCEPT !.v = v])
    /\ UNCHANGED notLazy

lazylist_extend ==
    /\ lzKind = "list"
    /\ \E o \in Lists(MaxLen) : lazylist_call("extend", [NoArg EXCEPT !.other = o])
    /\ UNCHANGED notLazy

lazylist_remove ==
    /\ lzKind = "list"
    /\ \E v \in Vals : lazylist_call("remove", [NoArg EXCEPT !.v = v])
    /\ UNCHANGED notLazy

lazylist_pop ==
    /\ lzKind = "list"
    /\ lazylist_call("pop", NoArg)
    /\ UNCHANGED notLazy

\* lazylist does not override __getitem__ / __setitem__: list's own run.
lazylist_getitem ==
    /\ lzKind = "list"
    /\ \E i \in 0..(MaxLen - 1) :
           lazylist_bound("__getitem__", [NoArg EXCEPT !.i = i])
    /\ UNCHANGED notLazy

lazylist_setitem ==
    /\ lzKind = "list"
    /\ \E i \in 0..(MaxLen - 1), v \in Vals :
           lazylist_bound("__setitem__", [NoArg EXCEPT !.i = i, !.v = v])
    /\ UNCHANGED notLazy

IdleLazy ==
    /\ lzKind = "idle"
    /\ lzSrc = <<>>
    /\ dStore = EmptyDict
    /\ lStore = <<>>
    /\ lzLoads = 0
    /\ lzBound = {}
    /\ lzRet = "ok"

\* A freshly constructed lazy container: nothing loaded, nothing rebound.
InitLazy ==
    /\ lzKind \in {"dict", "list"}
    /\ lzSrc \in IF lzKind = "dict" THEN Dicts ELSE Lists(MaxLen)
    /\ dStore = EmptyDict
    /\ lStore = <<>>
    /\ lzLoads = 0
    /\ lzBound = {}
    /\ lzRet = "ok"

NextLazy ==
    \/ lazydict_repr \/ lazydict_len \/ lazydict_iter \/ lazydict_contains
    \/ lazydict_getitem \/ lazydict_setitem \/ lazydict_setdefault
    \/ lazydict_get \/ lazydict_items \/ lazydict_keys \/ lazydict_values
    \/ lazydict_update \/ lazydict_pop \/ lazydict_popitem
    \/ lazylist_repr \/ lazylist_len \/ lazylist_iter \/ lazylist_contains
    \/ lazylist_insert \/ lazylist_append \/ lazylist_extend
    \/ lazylist_remove \/ lazylist_pop
    \/ lazylist_getitem \/ lazylist_setitem

(***************************************************************************)
(***************************************************************************)
(* TAGGED STRING (TaggedString.__new__, TaggedString.split)                *)
(***************************************************************************)
\* Bound of the codec model: how many list.append calls (new sentences, new
\* tokens, new fields) build the nested list.
MaxAppends == 6

SLASH == <<"&", "s", "l", "a", "s", "h", ";">>

WORD == "word"

\* The field values the caller may put in a token.
FieldChoices ==
    { <<>>, <<"a">>, <<"/">>, <<"a", "/", "b">>, <<" ">>, <<"\n">>, SLASH }

RECURSIVE SumLen(_)
SumLen(seqs) == IF Len(seqs) = 0 THEN 0 ELSE Len(seqs[1]) + SumLen(Tail(seqs))

\* Number of list.append calls that built a nested list: its sentences, its
\* tokens and its fields.
RECURSIVE CountAppends(_)
CountAppends(st) ==
    IF Len(st) = 0 THEN 0
    ELSE 1 + Len(st[1]) + SumLen(st[1]) + CountAppends(Tail(st))

\* x.replace("/", "&slash;") for x in token
EscapeField(x) == Replace(x, <<"/">>, SLASH)

\* A split that forgets to turn "&slash;" back into "/".
UnescapeField_NoUnescape(x) == x

\* x.replace("&slash;", "/") for x in token.split("/")
UnescapeField(x) == Replace(x, SLASH, <<"/">>)

EncodeToken(token) == Join(<<"/">>, Map(EscapeField, token))

EncodeSentence(sentence) == Join(<<" ">>, Map(EncodeToken, sentence))

\* "\n".join(" ".join("/".join(token) for token in s) for s in string)
EncodeList(st) == Join(<<"\n">>, Map(EncodeSentence, st))

\* TaggedString.__new__(string, tags, language) for a list argument.
TaggedString_from_list(st, tags, language) ==
    [string |-> EncodeList(st), tags |-> tags, language |-> language]

DecodeToken(token) == Map(UnescapeField, Split(token, <<"/">>))

DecodeSentence(sentence) == Map(DecodeToken, Split(sentence, <<" ">>))

\* TaggedString.split(sep=TOKENS)
TaggedString_split(self) ==
    IF Len(self.string) = 0 THEN <<>>
    ELSE Map(DecodeSentence, Split(self.string, <<"\n">>))

NoTagged == [string |-> <<>>, tags |-> <<>>, language |-> "None"]

\* ---- the caller fills the nested list: a new sentence, a new token in the
\* last sentence, a new field in the last token.
list_append_sentence ==
    /\ tsPc = "build"
    /\ CountAppends(tsInput) < MaxAppends
    /\ tsInput' = Append(tsInput, <<>>)
    /\ UNCHANGED <<tsPc, tsObj, tsOut>>
    /\ UNCHANGED notTagged

list_append_token ==
    /\ tsPc = "build"
    /\ Len(tsInput) > 0
    /\ CountAppends(tsInput) < MaxAppends
    /\ tsInput' = [tsInput EXCEPT ![Len(tsInput)] = Append(@, <<>>)]
    /\ UNCHANGED <<tsPc, tsObj, tsOut>>
    /\ UNCHANGED notTagged

list_append_field ==
    /\ tsPc = "build"
    /\ Len(tsInput) > 0
    /\ Len(tsInput[Len(tsInput)]) > 0
    /\ CountAppends(tsInput) < MaxAppends
    /\ \E f \in FieldChoices :
           tsInput' = [tsInput EXCEPT
                          ![Len(tsInput)][Len(tsInput[Len(tsInput)])] = Append(@, f)]
    /\ UNCHANGED <<tsPc, tsObj, tsOut>>
    /\ UNCHANGED notTagged

\* TaggedString(structure)
TaggedString_new ==
    /\ tsPc = "build"
    /\ tsObj' = TaggedString_from_list(tsInput, <<WORD>>, "None")
    /\ tsPc' = "made"
    /\ UNCHANGED <<tsInput, tsOut>>
    /\ UNCHANGED notTagged

\* TaggedString(structure).split()
TaggedString_split_call ==
    /\ tsPc = "made"
    /\ tsOut' = TaggedString_split(tsObj)
    /\ tsPc' = "split"
    /\ UNCHANGED <<tsInput, tsObj>>
    /\ UNCHANGED notTagged

IdleTagged ==
    /\ tsPc = "idle"
    /\ tsInput = <<>>
    /\ tsObj = NoTagged
    /\ tsOut = <<>>

InitTagged ==
    /\ tsPc = "build"
    /\ tsInput = <<>>
    /\ tsObj = NoTagged
    /\ tsOut = <<>>

NextTagged ==
    \/ list_append_sentence
    \/ list_append_token
    \/ list_append_field
    \/ TaggedString_new
    \/ TaggedString_split_call

(***************************************************************************)
(* TAGGED STRING FROM A TEXT VALUE (TaggedString.__new__)                  *)
(***************************************************************************)
\* A value given as the string argument is the record of its type
\* ("str", "TaggedString" or "list"), its content and, for a TaggedString,
\* its tags and language attributes.
\* compat.string_types: (str,) on Python 3, (str, unicode) on Python 2.
string_types == {"str", "unicode"}

\* hasattr(string, "tags"): a plain str or list carries no attribute.
HasTags(string) == string.type = "TaggedString"

\* TaggedString.__new__(string, tags, language)
TaggedString__new__(string, tags, language) ==
    LET fromTagged == string.type \in string_types /\ HasTags(string)
        tags1 == IF fromTagged THEN string.tags ELSE tags
        language1 == IF fromTagged THEN string.language ELSE language
        text == IF string.type = "list" THEN EncodeList(string.string)
                ELSE string.string
    IN  [type |-> "TaggedString", string |-> text, tags |-> tags1,
         language |-> language1]

\* The text values a caller may pass: plain strings, and TaggedStrings with
\* their own field list and language.
TextChoices == {<<>>, <<"c", "a", "t", "/", "N", "N">>}

FormatChoices == {<<WORD>>, <<WORD, "part-of-speech">>, <<WORD, "part-of-speech", "chunk">>}

LanguageArguments == {"None", "en", "fr"}

StringArguments ==
    {[type |-> "str", string |-> s, tags |-> <<>>, language |-> "None"] :
        s \in TextChoices}
    \cup [type : {"TaggedString"}, string : TextChoices, tags : FormatChoices,
          language : LanguageArguments]

\* ---- TaggedString(cpString, tags=cpTags, language=cpLanguage)
TaggedString_construct ==
    /\ cpPc = "call"
    /\ cpPc' = "made"
    /\ cpObj' = TaggedString__new__(cpString, cpTags, cpLanguage)
    /\ UNCHANGED <<cpString, cpTags, cpLanguage>>
    /\ UNCHANGED notCopy

IdleCopy ==
    /\ cpString = [type |-> "str", string |-> <<>>, tags |-> <<>>, language |-> "None"]
    /\ cpTags = <<>>
    /\ cpLanguage = "None"
    /\ cpPc = "idle"
    /\ cpObj = [type |-> "str", string |-> <<>>, tags |-> <<>>, language |-> "None"]

\* A caller has chosen the arguments; tags defaults to ["word"] and language
\* to None.
InitCopy ==
    /\ cpString \in StringArguments
    /\ cpTags \in FormatChoices
    /\ cpLanguage \in LanguageArguments
    /\ cpPc = "call"
    /\ cpObj = [type |-> "str", string |-> <<>>, tags |-> <<>>, language |-> "None"]

NextCopy ==
    \/ TaggedString_construct

(***************************************************************************)
(* SENTIMENT (Sentiment.__call__, Sentiment.assessments)                   *)
(***************************************************************************)
\* Bound of the sentiment model: how many (word, pos) pairs are scanned.
MaxWords == 3

\* ---- exact arithmetic for polarity, subjectivity and intensity: a number
\* is <<numerator, denominator>> in lowest terms with a positive denominator
\* (the rounding of Python floats is not modelled).
Abs(x) == IF x < 0 THEN -x ELSE x

RECURSIVE GCD(_, _)
GCD(a, b) == IF b = 0 THEN a ELSE GCD(b, a % b)

RNorm(n, d) ==
    LET g == GCD(Abs(n), Abs(d))
        sg == IF d < 0 THEN -1 ELSE 1
    IN  <<(sg * n) \div g, (sg * d) \div g>>

RMul(x, y) == RNorm(x[1] * y[1], x[2] * y[2])

\* 1.0 / x, for x # 0
RInv(x) == RNorm(x[2], x[1])

RLess(x, y) == x[1] * y[2] < y[1] * x[2]

RMin(x, y) == IF RLess(y, x) THEN y ELSE x

RMax(x, y) == IF RLess(x, y) THEN y ELSE x

\* max(-1.0, min(v, +1.0))
Clamp(v) == RMax(<<-1, 1>>, RMin(v, <<1, 1>>))

\* ---- characters
UpperLetters ==
    <<"A", "B", "C", "D", "E", "F", "G", "H", "I", "J", "K", "L", "M",
      "N", "O", "P", "Q", "R", "S", "T", "U", "V", "W", "X", "Y", "Z">>

LowerLetters ==
    <<"a", "b", "c", "d", "e", "f", "g", "h", "i", "j", "k", "l", "m",
      "n", "o", "p", "q", "r", "s", "t", "u", "v", "w", "x", "y", "z">>

IsUpper(c) == c \in Range(UpperLetters)

IsLetter(c) == c \in Range(UpperLetters) \cup Range(LowerLetters)

LowerChar(c) ==
    IF IsUpper(c)
    THEN LowerLetters[CHOOSE i \in 1..26 : UpperLetters[i] = c]
    ELSE c

\* w.lower()
Lower(w) == [i \in 1..Len(w) |-> LowerChar(w[i])]

\* w.isalpha()
IsAlpha(w) == Len(w) > 0 /\ \A i \in 1..Len(w) : IsLetter(w[i])

\* w.strip(c) for a one-character c
RECURSIVE LStrip(_, _)
LStrip(w, c) == IF Len(w) > 0 /\ w[1] = c THEN LStrip(Tail(w), c) ELSE w

RECURSIVE RStrip(_, _)
RStrip(w, c) ==
    IF Len(w) > 0 /\ w[Len(w)] = c THEN RStrip(SubSeq(w, 1, Len(w) - 1), c) ELSE w

Strip(w, c) == RStrip(LStrip(w, c), c)

PUNCTUATION ==
    <<".", ",", ";", ":", "!", "?", "(", ")", "[", "]", "{", "}", "`", "'",
      "'", "\"", "@", "#", "$", "^", "&", "*", "+", "-", "|", "=", "~", "_">>

\* (facial expression, sentiment) -> glyphs. "HEART" and "DEG" stand for the
\* one-character glyphs U+2665 and U+00B0.
EMOTICONS ==
    {
      [type |-> "love", p |-> <<1, 1>>,
       e |-> {<<"<", "3">>, <<"HEART">>}],
      [type |-> "grin", p |-> <<1, 1>>,
       e |-> {<<">", ":", "D">>, <<":", "-", "D">>, <<":", "D">>,
              <<"=", "-", "D">>, <<"=", "D">>, <<"X", "-", "D">>,
              <<"x", "-", "D">>, <<"X", "D">>, <<"x", "D">>, <<"8", "-", "D">>}],
      [type |-> "taunt", p |-> <<3, 4>>,
       e |-> {<<">", ":", "P">>, <<":", "-", "P">>, <<":", "P">>,
              <<":", "-", "p">>, <<":", "p">>, <<":", "-", "b">>, <<":", "b">>,
              <<":", "c", ")">>, <<":", "o", ")">>, <<":", "^", ")">>}],
      [type |-> "smile", p |-> <<1, 2>>,
       e |-> {<<">", ":", ")">>, <<":", "-", ")">>, <<":", ")">>, <<"=", ")">>,
              <<"=", "]">>, <<":", "]">>, <<":", "}">>, <<":", ">">>,
              <<":", "3">>, <<"8", ")">>, <<"8", "-", ")">>}],
      [type |-> "wink", p |-> <<1, 4>>,
       e |-> {<<">", ";", "]">>, <<";", "-", ")">>, <<";", ")">>,
              <<";", "-", "]">>, <<";", "]">>, <<";", "D">>, <<";", "^", ")">>,
              <<"*", "-", ")">>, <<"*", ")">>}],
      [type |-> "gasp", p |-> <<1, 20>>,
       e |-> {<<">", ":", "o">>, <<":", "-", "O">>, <<":", "O">>, <<":", "o">>,
              <<":", "-", "o">>, <<"o", "_", "O">>, <<"o", ".", "O">>,
              <<"DEG", "O", "DEG">>, <<"DEG", "o", "DEG">>}],
      [type |-> "worry", p |-> <<-1, 4>>,
       e |-> {<<">", ":", "/">>, <<":", "-", "/">>, <<":", "/">>, <<":", "\\">>,
              <<">", ":", "\\">>, <<":", "-", ".">>, <<":", "-", "s">>,
              <<":", "s">>, <<":", "S">>, <<":", "-", "S">>, <<">", ".", ">">>}],
      [type |-> "frown", p |-> <<-3, 4>>,
       e |-> {<<">", ":", "[">>, <<":", "-", "(">>, <<":", "(">>, <<"=", "(">>,
              <<":", "-", "[">>, <<":", "[">>, <<":", "{">>, <<":", "-", "<">>,
              <<":", "c">>, <<":", "-", "c">>, <<"=", "/">>}],
      [type |-> "cry", p |-> <<-1, 1>>,
       e |-> {<<":", "'", "(">>, <<":", "'", "'", "'", "(">>, <<";", "'", "(">>}]
    }

MOOD == "mood"

IRONY == "irony"

\* Python's None, as a word, a part-of-speech tag or an empty slot.
NONE == <<"None">>

\* ---- the words of the model
W_not == <<"n", "o", "t">>

W_never == <<"n", "e", "v", "e", "r">>

W_good == <<"g", "o", "o", "d">>

W_worst == <<"w", "o", "r", "s", "t">>

W_very == <<"v", "e", "r", "y">>

W_a == <<"a">>

W_movie == <<"m", "o", "v", "i", "e">>

W_bang == <<"!">>

W_sarcasm == <<"(", "!", ")">>

W_smile == <<":", ")">>

W_grin == <<":", "D">>

\* The loaded Sentiment dict: word -> part-of-speech tag -> (polarity,
\* subjectivity, intensity), with the averaged entry under None.
PosNone == "None"

SentimentDict ==
    (W_good   :> (PosNone :> << <<7, 10>>, <<3, 5>>, <<1, 1>> >> @@
                  "JJ"    :> << <<7, 10>>, <<3, 5>>, <<1, 1>> >>)) @@
    (W_worst  :> (PosNone :> << <<-1, 1>>, <<1, 1>>, <<1, 1>> >> @@
                  "JJ"    :> << <<-1, 1>>, <<1, 1>>, <<1, 1>> >>)) @@
    (W_very   :> (PosNone :> << <<1, 5>>, <<3, 10>>, <<13, 10>> >> @@
                  "RB"    :> << <<1, 5>>, <<3, 10>>, <<13, 10>> >>)) @@
    (W_never  :> (PosNone :> << <<0, 1>>, <<0, 1>>, <<1, 1>> >>))

\* Sentiment.labeler
Labeler == (W_worst :> "profanity")

\* self.labeler.get(w)
LabelOf(w) == IF w \in DOMAIN Labeler THEN Labeler[w] ELSE "None"

\* The default configuration of Sentiment.__init__.
negations == {W_not, <<"n", "o">>, <<"n", "'", "t">>, W_never}

modifiers == {"RB"}

\* self.modifier: lambda w: w.endswith("ly")
modifier(w) == EndsWith(w, <<"l", "y">>)

\* The words a caller may pass.
InputWords ==
    {W_not, W_never, W_good, W_worst, W_very, W_a, W_movie,
     W_bang, W_sarcasm, W_smile, W_grin}

\* The (word, pos) pairs a caller of assessments may pass: every word
\* untagged, and some of them with a part-of-speech tag.
InputPairs ==
    {<<w, PosNone>> : w \in InputWords}
        \cup {<<W_good, "JJ">>, <<W_worst, "JJ">>, <<W_very, "RB">>, <<W_not, "RB">>}

\* dict(w=[w], p=p, s=s, i=i, n=1, x=x)
Assessment(w, p, s, i, n, x) ==
    [w |-> w, p |-> p, s |-> s, i |-> i, n |-> n, x |-> x]

\* w in self and pos in self[w]
Known(w, pos) == w \in DOMAIN SentimentDict /\ pos \in DOMAIN SentimentDict[w]

\* The truth value of a slot: not None and not empty.
Truthy(v) == v # NONE /\ Len(v) > 0

\* A scan that starts no assessment for a known word.
Assessed_Dropped(a, w, psi) == a

\* Known word not preceded by a modifier:
\* a.append(dict(w=[w], p=p, s=s, i=i, n=1, x=self.labeler.get(w)))
Assessed(a, w, psi) ==
    Append(a, Assessment(<<w>>, psi[1], psi[2], psi[3], 1, LabelOf(w)))

\* The known-word branch of the loop body. st is [a, m, n, err]; err names
\* the exception that leaves the loop.
ScanKnown(st, w, pos, negation) ==
    LET psi  == SentimentDict[w][pos]
        a1   == IF st.m = NONE
                THEN Assessed(st.a, w, psi)
                ELSE [st.a EXCEPT ![Len(st.a)] =
                         [w |-> Append(@.w, w),
                          p |-> Clamp(RMul(psi[1], @.i)),
                          s |-> Clamp(RMul(psi[2], @.i)),
                          i |-> psi[3],
                          n |-> @.n,
                          x |-> LabelOf(w)]]
        a2   == IF st.n # NONE
                THEN [a1 EXCEPT ![Len(a1)] =
                         [@ EXCEPT !.w = <<st.n>> \o @,
                                   !.i = RInv(@),
                                   !.n = -1]]
                ELSE a1
        m2   == IF (pos # PosNone /\ pos \in modifiers)
                   \/ (\E q \in modifiers : q \in DOMAIN SentimentDict[w])
                THEN <<w, pos>> ELSE NONE
        n2   == IF negation /\ w \in negations THEN w ELSE NONE
    IN  IF st.m # NONE /\ Len(st.a) = 0
        THEN [st EXCEPT !.err = "IndexError"]
        ELSE IF st.n # NONE /\ a1[Len(a1)].i[1] = 0
             THEN [a |-> a1, m |-> st.m, n |-> st.n, err |-> "ZeroDivisionError"]
             ELSE [a |-> a2, m |-> m2, n |-> n2, err |-> "none"]

DropsModifier_LongWords(m, w) == Truthy(m) /\ Len(w) > 3

\* Whether the pending modifier is given up at an unknown word w.
DropsModifier(m, w) == Truthy(m) /\ Len(w) > 2

\* A negation that no unknown word ends.
ClearsNegation_Never(n, w) == FALSE

\* Whether the pending negation is given up at an unknown word w that is no
\* negation: n and len(w.strip("'")) > 1
ClearsNegation(n, w) == Truthy(n) /\ Len(Strip(w, "'")) > 1

Boost_None(p) == p

\* a[-1]["p"] = max(-1.0, min(a[-1]["p"] * 1.25, +1.0))
Boost(p) == Clamp(RMul(p, <<5, 4>>))

\* The emoticon categories whose lowercased glyphs hold w.
EmoticonsOf(w) == {e \in EMOTICONS : w \in {Lower(g) : g \in e.e}}

\* The unknown-word branch of the loop body.
ScanUnknown(st, w, pos, negation) ==
    LET n1   == IF negation /\ w \in negations THEN w
                ELSE IF ClearsNegation(st.n, w) THEN NONE
                     ELSE st.n
        fold == /\ n1 # NONE
                /\ st.m # NONE
                /\ (pos \in modifiers \/ modifier(st.m[1]))
        a1   == IF fold
                THEN [st.a EXCEPT ![Len(st.a)] =
                         [@ EXCEPT !.w = Append(@, n1), !.n = -1]]
                ELSE st.a
        n2   == IF fold THEN NONE ELSE n1
        m2   == IF ~fold /\ DropsModifier(st.m, w) THEN NONE ELSE st.m
        a2   == IF w = W_bang /\ Len(a1) > 0
                THEN [a1 EXCEPT ![Len(a1)] =
                         [@ EXCEPT !.w = Append(@, W_bang), !.p = Boost(@)]]
                ELSE a1
        a3   == IF w = W_sarcasm
                THEN Append(a2, Assessment(<<w>>, <<0, 1>>, <<1, 1>>, <<1, 1>>, 1, IRONY))
                ELSE a2
        emo  == EmoticonsOf(w)
        a4   == IF ~IsAlpha(w) /\ Len(w) <= 5 /\ ~Contains(PUNCTUATION, w) /\ emo # {}
                THEN Append(a3, Assessment(<<w>>, (CHOOSE e \in emo : TRUE).p,
                                           <<1, 1>>, <<1, 1>>, 1, MOOD))
                ELSE a3
    IN  IF fold /\ Len(st.a) = 0
        THEN [st EXCEPT !.err = "IndexError"]
        ELSE [a |-> a4, m |-> m2, n |-> n2, err |-> "none"]

Reported_KeepSign(a) ==
    [k \in 1..Len(a) |-> [w |-> a[k].w, p |-> a[k].p, s |-> a[k].s, x |-> a[k].x]]

\* The final pass: (w, p * -0.5 if n < 0 else p, s, x) for each assessment.
Reported(a) ==
    [k \in 1..Len(a) |->
        [w |-> a[k].w,
         p |-> IF a[k].n < 0 THEN RMul(a[k].p, <<-1, 2>>) ELSE a[k].p,
         s |-> a[k].s,
         x |-> a[k].x]]

ScanState == [a |-> snA, m |-> snM, n |-> snN, err |-> "none"]

\* The words a caller may still pass: a dict has each key once, and
\* Sentiment.__call__ gives every word of a dict or a list the tag None.
NextPairs ==
    {pair \in InputPairs :
        /\ snMode \in {"dict", "list"} => pair[2] = PosNone
        /\ snMode = "dict" => \A k \in 1..Len(snWords) : snWords[k][1] # pair[1]}

\* In a dict, chain(*(((w, None), (None, None)) for w in s)) follows every
\* word by a (None, None) pair.
SeparatorDue ==
    /\ snMode = "dict"
    /\ Len(snWords) > 0
    /\ snWords[Len(snWords)][1] # NONE

\* Number of words among the pairs consumed.
WordCount == Cardinality({k \in 1..Len(snWords) : snWords[k][1] # NONE})

Store(r, pair) ==
    /\ snWords' = Append(snWords, pair)
    /\ snA' = r.a
    /\ snM' = r.m
    /\ snN' = r.n
    /\ snPc' = IF r.err = "none" THEN "scan" ELSE "error"
    /\ UNCHANGED <<snMode, snNegation, snOut>>

\* for w, pos in words: ... if w is None: continue
assessments_none ==
    /\ snPc = "scan"
    /\ SeparatorDue
    /\ Store(ScanState, <<NONE, PosNone>>)
    /\ UNCHANGED notSent

\* for w, pos in words: ... if w in self and pos in self[w]: ...
assessments_known ==
    /\ snPc = "scan"
    /\ ~SeparatorDue
    /\ WordCount < MaxWords
    /\ \E pair \in NextPairs :
           /\ Known(pair[1], pair[2])
           /\ Store(ScanKnown(ScanState, pair[1], pair[2], snNegation), pair)
    /\ UNCHANGED notSent

\* for w, pos in words: ... else: ...
assessments_unknown ==
    /\ snPc = "scan"
    /\ ~SeparatorDue
    /\ WordCount < MaxWords
    /\ \E pair \in NextPairs :
           /\ ~Known(pair[1], pair[2])
           /\ Store(ScanUnknown(ScanState, pair[1], pair[2], snNegation), pair)
    /\ UNCHANGED notSent

\* The words are exhausted: the final pass, and the return.
assessments_return ==
    /\ snPc = "scan"
    /\ ~SeparatorDue
    /\ snOut' = Reported(snA)
    /\ snPc' = "done"
    /\ UNCHANGED <<snMode, snNegation, snWords, snA, snM, snN>>
    /\ UNCHANGED notSent

IdleSent ==
    /\ snMode = "idle"
    /\ snNegation = TRUE
    /\ snWords = <<>>
    /\ snA = <<>>
    /\ snM = NONE
    /\ snN = NONE
    /\ snPc = "idle"
    /\ snOut = <<>>

\* assessments(words, negation) is entered: a = [], m = None, n = None.
InitSent ==
    /\ snMode \in {"dict", "list", "pairs"}
    /\ snNegation \in BOOLEAN
    /\ snWords = <<>>
    /\ snA = <<>>
    /\ snM = NONE
    /\ snN = NONE
    /\ snPc = "scan"
    /\ snOut = <<>>

NextSent ==
    \/ assessments_none
    \/ assessments_known
    \/ assessments_unknown
    \/ assessments_return

(***************************************************************************)
(* PART-OF-SPEECH TAGGER: find_tags                                        *)
(***************************************************************************)

\* Most tokens a caller passes to find_tags.
MaxTokens == 3

T_NN == <<"N", "N">>

T_NNP == <<"N", "N", "P">>

T_CD == <<"C", "D">>

T_DT == <<"D", "T">>

T_VB == <<"V", "B">>

\* default=("NN", "NNP", "CD")
default == <<T_NN, T_NNP, T_CD>>

\* [0-9\-\,\.\:\/\%\$]
CDChars ==
    {"0", "1", "2", "3", "4", "5", "6", "7", "8", "9",
     "-", ",", ".", ":", "/", "%", "$"}

\* CD.match(token) is not None, for CD = ^[0-9\-\,\.\:\/\%\$]+$ ($ also
\* matches before one final newline).
CD_match(token) ==
    LET body == IF Len(token) > 0 /\ token[Len(token)] = "\n"
                THEN SubSeq(token, 1, Len(token) - 1) ELSE token
    IN  /\ Len(body) > 0
        /\ \A i \in 1..Len(body) : body[i] \in CDChars

\* word.endswith((s1, s2, ...))
EndsWithAny(word, suffixes) == \E s \in suffixes : EndsWith(word, s)

\* _suffix_rules(token): the tag after each rule in turn.
suffix_rules(word, pos) ==
    LET p1 == IF EndsWith(word, <<"i", "n", "g">>) THEN <<"V", "B", "G">> ELSE pos
        p2 == IF EndsWith(word, <<"l", "y">>) THEN <<"R", "B">> ELSE p1
        p3 == IF EndsWith(word, <<"s">>)
                  /\ ~EndsWithAny(word, {<<"i", "s">>, <<"o", "u", "s">>, <<"s", "s">>})
              THEN <<"N", "N", "S">> ELSE p2
        p4 == IF EndsWithAny(word, {<<"a", "b", "l", "e">>, <<"a", "l">>, <<"f", "u", "l">>, <<"i", "b", "l", "e">>, <<"i", "e", "n", "t">>,
                                    <<"i", "s", "h">>, <<"i", "v", "e">>, <<"l", "e", "s", "s">>, <<"t", "i", "c">>, <<"o", "u", "s">>})
                  \/ Contains(word, <<"-">>)
              THEN <<"J", "J">> ELSE p3
        p5 == IF EndsWith(word, <<"e", "d">>) THEN <<"V", "B", "N">> ELSE p4
        p6 == IF EndsWithAny(word, {<<"a", "t", "e">>, <<"i", "f", "y">>, <<"i", "s", "e">>, <<"i", "z", "e">>})
              THEN <<"V", "B", "P">> ELSE p5
    IN  p6

\* f: _suffix_rules for language "en", the identity for the others (the
\* lexicon is a plain dict, not a Lexicon).
MorphologyTag(word, pos, language) ==
    IF language = "en" THEN suffix_rules(word, pos) ELSE pos

\* lexicon.get(token, i==0 and lexicon.get(token.lower()) or None), i being
\* the 0-based position: NONE stands for None.
LexiconTag(token, first, lexicon) ==
    IF token \in DOMAIN lexicon THEN lexicon[token]
    ELSE IF first /\ Lower(token) \in DOMAIN lexicon /\ Len(lexicon[Lower(token)]) > 0
         THEN lexicon[Lower(token)]
         ELSE NONE

\* token[0].isupper() and token[0].isalpha()
IsCapitalized(token) == Len(token) > 0 /\ IsUpper(token[1]) /\ IsLetter(token[1])

UnknownTag_NoProperNoun(token, language) ==
    IF CD_match(token) THEN default[3] ELSE MorphologyTag(token, default[1], language)

\* The tag of a token the lexicon gave None.
UnknownTag(token, language) ==
    IF IsCapitalized(token) /\ language # "de" THEN default[2]
    ELSE IF CD_match(token) THEN default[3]
         ELSE MorphologyTag(token, default[1], language)

\* find_tags(tokens, lexicon, language=language), map=None.
find_tags(tokens, lexicon, language) ==
    [i \in 1..Len(tokens) |->
        LET tag == LexiconTag(tokens[i], i = 1, lexicon)
        IN  <<tokens[i], IF tag = NONE THEN UnknownTag(tokens[i], language) ELSE tag>>]

\* The tokens of the model.
TagWords ==
    {<<"T", "h", "e">>, <<"t", "h", "e">>, <<"C", "a", "t">>, <<"c", "a", "t">>, <<"c", "a", "t", "s">>, <<"q", "u", "i", "c", "k", "l", "y">>, <<"1", "2">>, <<>>}

\* The lexicons of the model.
LexiconChoices ==
    {EmptyDict,
     (<<"t", "h", "e">> :> T_DT),
     (<<"t", "h", "e">> :> T_DT) @@ (<<"C", "a", "t">> :> T_NN) @@ (<<"c", "a", "t", "s">> :> T_VB)}

LanguageChoices == {"en", "de", "None"}

\* The caller appends one more token to the list.
tokens_append ==
    /\ tgPc = "build"
    /\ Len(tgTokens) < MaxTokens
    /\ \E w \in TagWords : tgTokens' = Append(tgTokens, w)
    /\ UNCHANGED <<tgLexicon, tgLanguage, tgPc, tgOut>>
    /\ UNCHANGED notTags

\* find_tags(tokens, lexicon, language=language)
find_tags_call ==
    /\ tgPc = "build"
    /\ tgOut' = find_tags(tgTokens, tgLexicon, tgLanguage)
    /\ tgPc' = "done"
    /\ UNCHANGED <<tgTokens, tgLexicon, tgLanguage>>
    /\ UNCHANGED notTags

IdleTags ==
    /\ tgTokens = <<>>
    /\ tgLexicon = EmptyDict
    /\ tgLanguage = "None"
    /\ tgPc = "idle"
    /\ tgOut = <<>>

InitTags ==
    /\ tgTokens = <<>>
    /\ tgLexicon \in LexiconChoices
    /\ tgLanguage \in LanguageChoices
    /\ tgPc = "build"
    /\ tgOut = <<>>

NextTags ==
    \/ tokens_append
    \/ find_tags_call

(***************************************************************************)
(* PARSER: Parser.parse                                                    *)
(***************************************************************************)

\* Most list.append calls by which a caller builds the sentences.
MaxParseAppends == 4

\* The chunker and the preposition tagger, which this repository delegates:
\* together they add a chunk field and a preposition field to every token.
find_chunks(tokens) == [i \in 1..Len(tokens) |-> tokens[i] \o <<<<"O">>, <<"O">>>>]

\* The role labeler, which this repository delegates: it adds a relation
\* field to every token.
find_relations(tokens) == [i \in 1..Len(tokens) |-> Append(tokens[i], <<"O">>)]

\* Parser.find_lemmata: token + [token[0].lower()]
find_lemmata(tokens) ==
    [i \in 1..Len(tokens) |-> Append(tokens[i], Lower(tokens[i][1]))]

\* The body of the loop over the sentences: tagger, chunker, labeler,
\* lemmatizer, each under its condition.
ParseSentence(words, flags, lexicon, language) ==
    LET s1 == IF flags.tags \/ flags.chunks \/ flags.relations \/ flags.lemmata
              THEN find_tags(words, lexicon, language)
              ELSE [i \in 1..Len(words) |-> <<words[i]>>]
        s2 == IF flags.chunks \/ flags.relations THEN find_chunks(s1) ELSE s1
        s3 == IF flags.relations THEN find_relations(s2) ELSE s2
        s4 == IF flags.lemmata THEN find_lemmata(s3) ELSE s3
    IN  s4

\* Construct TaggedString.format.
Format(flags) ==
    <<<<"w", "o", "r", "d">>>>
        \o (IF flags.tags THEN <<<<"p", "a", "r", "t", "-", "o", "f", "-", "s", "p", "e", "e", "c", "h">>>> ELSE <<>>)
        \o (IF flags.chunks THEN <<<<"c", "h", "u", "n", "k">>, <<"p", "r", "e", "p", "o", "s", "i", "t", "i", "o", "n">>>> ELSE <<>>)
        \o (IF flags.relations THEN <<<<"r", "e", "l", "a", "t", "i", "o", "n">>>> ELSE <<>>)
        \o (IF flags.lemmata THEN <<<<"l", "e", "m", "m", "a">>>> ELSE <<>>)

\* s[i][j][0] = s[i][j][0].replace("/", "&slash;"); s[i][j] = "/".join(s[i][j])
CollapseToken(token) ==
    Join(<<"/">>, [k \in 1..Len(token) |->
                      IF k = 1 THEN EscapeField(token[k]) ELSE token[k]])

CollapseSentence(sentence) ==
    Join(<<" ">>, [j \in 1..Len(sentence) |-> CollapseToken(sentence[j])])

\* Parser.parse(s, tokenize=False, tags, chunks, relations, lemmata) with
\* collapsing, for s a list of word lists.
Parser_parse(s, flags, lexicon, language) ==
    [string   |-> Join(<<"\n">>,
                       [i \in 1..Len(s) |->
                           CollapseSentence(ParseSentence(s[i], flags, lexicon, language))]),
     tags     |-> Format(flags),
     language |-> language]

Flags == [tags : BOOLEAN, chunks : BOOLEAN, relations : BOOLEAN, lemmata : BOOLEAN]

\* The words of the model.
ParseWords == {<<"c", "a", "t">>, <<"C", "a", "t">>, <<"a", "/", "b">>, <<"1", "2">>}

\* Number of list.append calls that built s: its sentences and their words.
ParseAppends(s) == Len(s) + SumLen(s)

\* The caller appends a word to the last sentence.
parse_append_word ==
    /\ paPc = "build"
    /\ ParseAppends(paInput) < MaxParseAppends
    /\ \E w \in ParseWords :
           paInput' = [paInput EXCEPT ![Len(paInput)] = Append(@, w)]
    /\ UNCHANGED <<paFlags, paLexicon, paPc, paOut>>
    /\ UNCHANGED notParse

\* The caller appends a new sentence of one word.
parse_append_sentence ==
    /\ paPc = "build"
    /\ ParseAppends(paInput) < MaxParseAppends
    /\ \E w \in ParseWords : paInput' = Append(paInput, <<w>>)
    /\ UNCHANGED <<paFlags, paLexicon, paPc, paOut>>
    /\ UNCHANGED notParse

\* Parser(lexicon, language="en").parse(s, tokenize=False, ...)
Parser_parse_call ==
    /\ paPc = "build"
    /\ paOut' = Parser_parse(paInput, paFlags, paLexicon, "en")
    /\ paPc' = "done"
    /\ UNCHANGED <<paFlags, paLexicon, paInput>>
    /\ UNCHANGED notParse

IdleParse ==
    /\ paFlags = [tags |-> TRUE, chunks |-> TRUE, relations |-> FALSE, lemmata |-> FALSE]
    /\ paLexicon = EmptyDict
    /\ paInput = <<>>
    /\ paPc = "idle"
    /\ paOut = NoTagged

InitParse ==
    /\ paFlags \in Flags
    /\ paLexicon \in LexiconChoices
    /\ \E w \in ParseWords : paInput = << <<w>> >>
    /\ paPc = "build"
    /\ paOut = NoTagged

NextParse ==
    \/ parse_append_word
    \/ parse_append_sentence
    \/ Parser_parse_call

(***************************************************************************)
(* TOKENIZER: find_tokens                                                  *)
(***************************************************************************)

\* Most pieces a caller writes the input string from.
MaxPieces == 4

ABBREVIATIONS ==
    {<<"a", ".">>, <<"a", "d", "j", ".">>, <<"a", "d", "v", ".">>, <<"a", "l", ".">>, <<"a", ".", "m", ".">>, <<"c", ".">>, <<"c", "f", ".">>, <<"c", "o", "m", "p", ".">>,
     <<"c", "o", "n", "f", ".">>, <<"d", "e", "f", ".">>, <<"e", "d", ".">>, <<"e", ".", "g", ".">>, <<"e", "s", "p", ".">>, <<"e", "t", "c", ".">>, <<"e", "x", ".">>, <<"f", ".">>,
     <<"f", "i", "g", ".">>, <<"g", "e", "n", ".">>, <<"i", "d", ".">>, <<"i", ".", "e", ".">>, <<"i", "n", "t", ".">>, <<"l", ".">>, <<"m", ".">>, <<"M", "e", "d", ".">>,
     <<"M", "i", "l", ".">>, <<"M", "r", ".">>, <<"n", ".">>, <<"n", ".", "q", ".">>, <<"o", "r", "i", "g", ".">>, <<"p", "l", ".">>, <<"p", "r", "e", "d", ".">>,
     <<"p", "r", "e", "s", ".">>, <<"p", ".", "m", ".">>, <<"r", "e", "f", ".">>, <<"v", ".">>, <<"v", "s", ".">>, <<"w", "/">>}

\* RE_ABBR1 = ^[A-Za-z]\.$
RE_ABBR1_match(t) == Len(t) = 2 /\ IsLetter(t[1]) /\ t[2] = "."

\* RE_ABBR2 = ^([A-Za-z]\.)+$
RE_ABBR2_match(t) ==
    /\ Len(t) >= 2
    /\ Len(t) % 2 = 0
    /\ \A i \in 1..Len(t) : IF i % 2 = 1 THEN IsLetter(t[i]) ELSE t[i] = "."

\* The class of RE_ABBR3: "|".join("bcdfghjklmnpqrstvwxz") between brackets.
AbbrConsonants == Range(<<"b", "c", "d", "f", "g", "h", "j", "k", "l", "m", "n", "p", "q", "r", "s", "t", "v", "w", "x", "z">>) \cup {"|"}

\* RE_ABBR3 = ^[A-Z][b|c|d|...|z]+.$ : the final dot of the pattern is not
\* escaped and matches any character but a newline.
RE_ABBR3_match(t) ==
    /\ Len(t) >= 3
    /\ IsUpper(t[1])
    /\ \A i \in 2..(Len(t) - 1) : t[i] \in AbbrConsonants
    /\ t[Len(t)] # "\n"

IsAbbreviation_Never(t) == FALSE

\* The test that keeps the period of t, for t ending in a period.
IsAbbreviation(t) ==
    \/ t \in ABBREVIATIONS
    \/ RE_ABBR1_match(t)
    \/ RE_ABBR2_match(t)
    \/ RE_ABBR3_match(t)

\* replacements, as (pattern, replacement) pairs
replacements ==
    << <<<<"'", "d">>, <<" ", "'", "d">>>>, <<<<"'", "m">>, <<" ", "'", "m">>>>, <<<<"'", "s">>, <<" ", "'", "s">>>>,
       <<<<"'", "l", "l">>, <<" ", "'", "l", "l">>>>, <<<<"'", "r", "e">>, <<" ", "'", "r", "e">>>>, <<<<"'", "v", "e">>, <<" ", "'", "v", "e">>>>,
       <<<<"n", "'", "t">>, <<" ", "n", "'", "t">>>> >>

\* t in replace
InReplace(t) == \E k \in 1..Len(replacements) : replacements[k][1] = t

\* for a, b in replace.items(): string = re.sub(a, b, string)
RECURSIVE Contractions(_, _)
Contractions(string, k) ==
    IF k > Len(replacements) THEN string
    ELSE Contractions(Replace(string, replacements[k][1], replacements[k][2]), k + 1)

\* The quotation marks the code pads with spaces; "LDQUO", "RDQUO", "LSQUO"
\* and "RSQUO" stand for the one-character marks U+201C, U+201D, U+2018, U+2019.
QuoteMarks == <<"LDQUO", "RDQUO", "LSQUO", "RSQUO", "'", "\"">>

\* string = string.replace(q, " q ") for each quotation mark q in turn
RECURSIVE QuotePadding(_, _)
QuotePadding(string, k) ==
    IF k > Len(QuoteMarks) THEN string
    ELSE QuotePadding(Replace(string, <<QuoteMarks[k]>>, <<" ", QuoteMarks[k], " ">>), k + 1)

\* \s
Whitespace == {" ", "\n", "\t", "\r", "\f"}

EOS == <<"E", "N", "D", "-", "O", "F", "-", "S", "E", "N", "T", "E", "N", "C", "E">>

\* The end of the run of characters (or tokens) of s that starts at i and
\* stays in set: the first position after it.
RunEnd(s, i, set) ==
    CHOOSE j \in i..(Len(s) + 1) :
        /\ \A k \in i..(j - 1) : s[k] \in set
        /\ j = Len(s) + 1 \/ s[j] \notin set

\* A tokenizer that does not mark blank lines.
Linebreaks_Kept(s, i) == SubSeq(s, i, Len(s))

\* re.sub(r"\n{2,}", " %s " % EOS, string)
RECURSIVE Linebreaks(_, _)
Linebreaks(s, i) ==
    IF i > Len(s) THEN <<>>
    ELSE IF s[i] = "\n" /\ i < Len(s) /\ s[i + 1] = "\n"
         THEN <<" ">> \o EOS \o <<" ">> \o Linebreaks(s, RunEnd(s, i, {"\n"}))
         ELSE <<s[i]>> \o Linebreaks(s, i + 1)

\* re.sub(r"\s+", " ", string)
RECURSIVE CollapseWhitespace(_, _)
CollapseWhitespace(s, i) ==
    IF i > Len(s) THEN <<>>
    ELSE IF s[i] \in Whitespace
         THEN <<" ">> \o CollapseWhitespace(s, RunEnd(s, i, Whitespace))
         ELSE <<s[i]>> \o CollapseWhitespace(s, i + 1)

\* TOKEN.findall(string + " ") for TOKEN = (\S+)\s
RECURSIVE FindAll(_, _)
FindAll(s, i) ==
    IF i > Len(s) THEN <<>>
    ELSE IF s[i] \in Whitespace THEN FindAll(s, i + 1)
         ELSE LET j == RunEnd(s, i, {s[k] : k \in 1..Len(s)} \ Whitespace)
              IN  <<SubSeq(s, i, j - 1)>> \o FindAll(s, j)

\* The string as it reaches the token loop.
Prepare(string) ==
    LET s1 == Contractions(string, 1)
        s2 == QuotePadding(s1, 1)
        s3 == Replace(s2, <<"\r", "\n">>, <<"\n">>)
        s4 == Linebreaks(s3, 1)
    IN  CollapseWhitespace(s4, 1)

\* tuple(punctuation.replace(".", ""))
PunctuationMarks == Range(PUNCTUATION) \ {"."}

\* while t.startswith(punctuation) and not t in replace: split it.
RECURSIVE SplitLeading(_, _)
SplitLeading(t, lead) ==
    IF Len(t) > 0 /\ t[1] \in PunctuationMarks /\ ~InReplace(t)
    THEN SplitLeading(Tail(t), Append(lead, <<t[1]>>))
    ELSE [t |-> t, lead |-> lead]

ButLast(t, n) == SubSeq(t, 1, Len(t) - n)

\* while t.endswith(punctuation + (".",)) and not t in replace: ...
RECURSIVE SplitTrailing(_, _)
SplitTrailing(t, tail) ==
    IF ~(Len(t) > 0 /\ t[Len(t)] \in PunctuationMarks \cup {"."} /\ ~InReplace(t))
    THEN [t |-> t, tail |-> tail]
    ELSE LET a == IF t[Len(t)] \in PunctuationMarks
                  THEN [t |-> ButLast(t, 1), tail |-> Append(tail, <<t[Len(t)]>>)]
                  ELSE [t |-> t, tail |-> tail]
             b == IF EndsWith(a.t, <<".", ".", ".">>)
                  THEN [t |-> RStrip(ButLast(a.t, 3), "."), tail |-> Append(a.tail, <<".", ".", ".">>)]
                  ELSE a
         IN  IF EndsWith(b.t, <<".">>)
             THEN IF IsAbbreviation(b.t)
                  THEN b
                  ELSE SplitTrailing(ButLast(b.t, 1), Append(b.tail, <<".">>))
             ELSE SplitTrailing(b.t, b.tail)

Reverse(s) == [i \in 1..Len(s) |-> s[Len(s) + 1 - i]]

\* The tokens one raw token t adds to the list.
TokensOf(t) ==
    LET l == SplitLeading(t, <<>>)
        r == SplitTrailing(l.t, <<>>)
    IN  l.lead \o (IF r.t # <<>> THEN <<r.t>> ELSE <<>>) \o Reverse(r.tail)

RECURSIVE Flatten(_)
Flatten(seqs) == IF Len(seqs) = 0 THEN <<>> ELSE seqs[1] \o Flatten(Tail(seqs))

Terminators == {<<".", ".", ".">>, <<".">>, <<"!">>, <<"?">>, EOS}

Closers == Terminators \cup {<<")">>, <<"'">>, <<"\"">>, <<"RDQUO">>, <<"RSQUO">>}

SelectNot(s, x) == SelectSeq(s, LAMBDA t : t # x)

\* The loop over tokens that cuts the sentences: i and j are the code's
\* i + 1 and j + 1, acc is sentences.
RECURSIVE CutSentences(_, _, _, _)
CutSentences(tokens, i, j, acc) ==
    IF j > Len(tokens)
    THEN [acc EXCEPT ![Len(acc)] = @ \o SubSeq(tokens, i, Len(tokens))]
    ELSE IF tokens[j] \in Terminators
         THEN LET j2 == RunEnd(tokens, j, Closers)
              IN  CutSentences(tokens, j2, j2 + 1,
                      Append([acc EXCEPT ![Len(acc)] =
                                 @ \o SelectNot(SubSeq(tokens, i, j2 - 1), EOS)],
                             <<>>))
         ELSE CutSentences(tokens, i, j + 1, acc)

\* The end of a match of ( ?)c at position i of s, given that c follows:
\* the position after c, or 0.
AfterChar(s, i, c) ==
    IF i <= Len(s) /\ s[i] = c THEN i + 1
    ELSE IF i + 1 <= Len(s) /\ s[i] = " " /\ s[i + 1] = c THEN i + 2
         ELSE 0

\* The end of a match at position i of s of the characters of g from the
\* k-th on, " ?" between them: the position after the match, or 0.
RECURSIVE MatchSpaced(_, _, _, _)
MatchSpaced(s, i, g, k) ==
    IF k > Len(g) THEN i
    ELSE LET n == IF k = 1
                  THEN (IF i <= Len(s) /\ s[i] = g[1] THEN i + 1 ELSE 0)
                  ELSE AfterChar(s, i, g[k])
         IN  IF n = 0 THEN 0 ELSE MatchSpaced(s, n, g, k + 1)

\* RE_SARCASM.sub("(!)", s) for RE_SARCASM = \( ?\! ?\)
RECURSIVE Sarcasm(_, _)
Sarcasm(s, i) ==
    IF i > Len(s) THEN <<>>
    ELSE LET n == MatchSpaced(s, i, <<"(", "!", ")">>, 1)
         IN  IF n > 0 THEN <<"(", "!", ")">> \o Sarcasm(s, n)
             ELSE <<s[i]>> \o Sarcasm(s, i + 1)

Glyphs == UNION {e.e : e \in EMOTICONS}

\* The first characters of the glyphs.
GlyphHeads == {g[1] : g \in Glyphs}

\* The glyphs of RE_EMOTICONS that match at position i of s, followed by
\* the end of s or by a whitespace character.
GlyphsAt(s, i) ==
    IF s[i] \notin GlyphHeads THEN {}
    ELSE {g \in Glyphs :
            /\ g[1] = s[i]
            /\ LET n == MatchSpaced(s, i, g, 1)
               IN  n > 0 /\ (n = Len(s) + 1 \/ s[n] \in Whitespace)}

\* RE_EMOTICONS.sub(lambda m: m.group(1).replace(" ", "") + m.group(2), s).
\* Where two glyphs match at one position the pattern takes the one its
\* alternation lists first; no string of the model gives two glyphs a match
\* at one position.
RECURSIVE Emoticons(_, _)
Emoticons(s, i) ==
    IF i > Len(s) THEN <<>>
    ELSE LET at == GlyphsAt(s, i)
         IN  IF at # {}
             THEN LET g == CHOOSE g \in at : TRUE
                      n == MatchSpaced(s, i, g, 1)
                  IN  g \o (IF n <= Len(s) THEN <<s[n]>> ELSE <<>>) \o Emoticons(s, n + 1)
             ELSE <<s[i]>> \o Emoticons(s, i + 1)

\* sentences: joined, the empty ones dropped, sarcasm marks and emoticons
\* put together again.
Sentences(tokens) ==
    LET cut    == CutSentences(tokens, 1, 1, << <<>> >>)
        kept   == SelectSeq(cut, LAMBDA s : Len(s) > 0)
    IN  [k \in 1..Len(kept) |-> Emoticons(Sarcasm(Join(<<" ">>, kept[k]), 1), 1)]

\* find_tokens(string) with the default punctuation, abbreviations,
\* replacements and linebreak pattern: the list of sentences.
find_tokens(string) ==
    LET raw == FindAll(Prepare(string) \o <<" ">>, 1)
    IN  Sentences(Flatten([k \in 1..Len(raw) |-> TokensOf(raw[k])]))

\* The pieces of the model: words, a period, a contraction suffix, the
\* start of an emoticon, a space and a newline.
Pieces ==
    {<<"d", "o">>, <<"M", "r">>, <<"o">>, <<"T", "|">>, <<".">>,
     <<"n", "'", "t">>, <<":", "-">>, <<" ">>, <<"\n">>}

\* The caller writes one more piece of the string.
string_append ==
    /\ tkPc = "build"
    /\ Len(tkPieces) < MaxPieces
    /\ \E p \in Pieces : tkPieces' = Append(tkPieces, p)
    /\ UNCHANGED <<tkPc, tkRaw, tkTokens, tkOut>>
    /\ UNCHANGED notTokens

\* find_tokens(string)
find_tokens_call ==
    /\ tkPc = "build"
    /\ \E raw \in {FindAll(Prepare(Flatten(tkPieces)) \o <<" ">>, 1)} :
           \E tokens \in {Flatten([k \in 1..Len(raw) |-> TokensOf(raw[k])])} :
               /\ tkRaw' = raw
               /\ tkTokens' = tokens
               /\ tkOut' = Sentences(tokens)
    /\ tkPc' = "done"
    /\ UNCHANGED tkPieces
    /\ UNCHANGED notTokens

IdleTokens ==
    /\ tkPieces = <<>>
    /\ tkPc = "idle"
    /\ tkRaw = <<>>
    /\ tkTokens = <<>>
    /\ tkOut = <<>>

InitTokens ==
    /\ tkPieces = <<>>
    /\ tkPc = "build"
    /\ tkRaw = <<>>
    /\ tkTokens = <<>>
    /\ tkOut = <<>>

NextTokens ==
    \/ string_append
    \/ find_tokens_call

(* NAMED ENTITIES (Entities)                                               *)
(***************************************************************************)
MaxEntityWords == 2

MaxEntityTokens == 3

T_NNPS == <<"N", "N", "P", "S">>

UpperChar(c) ==
    IF c \in Range(LowerLetters)
    THEN UpperLetters[CHOOSE i \in 1..26 : LowerLetters[i] = c]
    ELSE c

\* w.upper()
Upper(w) == [i \in 1..Len(w) |-> UpperChar(w[i])]

\* \w for the characters of ASCII
WordChars ==
    Range(UpperLetters) \cup Range(LowerLetters) \cup {"_"}
        \cup {"0", "1", "2", "3", "4", "5", "6", "7", "8", "9"}

\* The string a pattern ending in $ is matched against: $ also matches
\* before one final newline.
BeforeFinalNewline(w) ==
    IF Len(w) > 0 /\ w[Len(w)] = "\n" THEN SubSeq(w, 1, Len(w) - 1) ELSE w

\* RE_ENTITY1.match(w) for ^http://
RE_ENTITY1_match(w) == StartsWith(w, <<"h", "t", "t", "p", ":", "/", "/">>)

\* RE_ENTITY2.match(w) for ^www\..*?\.[com|org|net|edu|de|uk]$ : the bracket
\* is a character class, one character of it ends the word.
RE_ENTITY2_match(w) ==
    \E b \in {w, BeforeFinalNewline(w)} :
        /\ Len(b) >= 6
        /\ StartsWith(b, <<"w", "w", "w", ".">>)
        /\ b[Len(b) - 1] = "."
        /\ b[Len(b)] \in {"c", "o", "m", "|", "r", "g", "n", "e", "t", "d", "u", "k"}
        /\ \A k \in 5..(Len(b) - 2) : b[k] # "\n"

\* RE_ENTITY3.match(w) for ^[\w\-\.\+]+@(\w[\w\-]+\.)+[\w\-]+$
RE_ENTITY3_match(w) ==
    \E b \in {w, BeforeFinalNewline(w)} : \E a \in 2..Len(b) :
        /\ b[a] = "@"
        /\ \A k \in 1..(a - 1) : b[k] \in WordChars \cup {"-", ".", "+"}
        /\ LET parts == Split(SubSeq(b, a + 1, Len(b)), <<".">>)
           IN  /\ Len(parts) >= 2
               /\ \A k \in 1..Len(parts) :
                      /\ Len(parts[k]) > 0
                      /\ \A c \in Range(parts[k]) : c \in WordChars \cup {"-"}
               /\ \A k \in 1..(Len(parts) - 1) :
                      /\ Len(parts[k]) >= 2
                      /\ parts[k][1] \in WordChars

\* Entities.cmd
cmd == {<<"p", "e", "r", "s">>, <<"l", "o", "c">>, <<"o", "r", "g">>}

\* Entities.tag, the default of __init__
Entities_tag == <<"N", "N", "P">>

\* e, tag = (e[:-1], "-"+e[-1].upper()) if e[-1] in self.cmd else (e, "")
EntryWords(e) == IF e[Len(e)] \in cmd THEN SubSeq(e, 1, Len(e) - 1) ELSE e

EntrySuffix(e) == IF e[Len(e)] \in cmd THEN <<"-">> \o Upper(e[Len(e)]) ELSE <<>>

\* b after the look-ahead loop: every word of the entity is the lowercased
\* word of the token at the same offset from i (i is the code's i + 1).
LooksAhead(words, tokens, i) ==
    \A j \in 1..Len(words) :
        /\ i + j - 1 <= Len(tokens)
        /\ Lower(tokens[i + j - 1][1]) = words[j]

\* A recognizer that adds the category to the tag the token already has.
Retagged_KeepsTag(token, suffix) == <<token[1], token[2] \o suffix>>

\* A recognizer that gives every token of a span the entity tag.
Retagged_Always(token, suffix) == <<token[1], Entities_tag \o suffix>>

\* token[1] = (token[1] == "NNPS" and token[1] or self.tag) + tag
Retagged(token, suffix) ==
    <<token[1], (IF token[2] = T_NNPS THEN token[2] ELSE Entities_tag) \o suffix>>

\* The while loop of Entities.apply from position i on (the code's i + 1).
RECURSIVE ApplyFrom(_, _, _)
ApplyFrom(self, tokens, i) ==
    IF i > Len(tokens) THEN tokens
    ELSE LET w     == Lower(tokens[i][1])
             t1    == IF RE_ENTITY1_match(w) \/ RE_ENTITY2_match(w) \/ RE_ENTITY3_match(w)
                      THEN [tokens EXCEPT ![i] = <<tokens[i][1], Entities_tag>>]
                      ELSE tokens
             cands == IF w \in DOMAIN self THEN self[w] ELSE <<>>
             hits  == {c \in 1..Len(cands) : LooksAhead(EntryWords(cands[c]), t1, i)}
         IN  IF hits = {} THEN ApplyFrom(self, t1, i + 1)
             ELSE LET e == cands[CHOOSE c \in hits : \A d \in hits : c <= d]
                      n == Len(EntryWords(e))
                  IN  ApplyFrom(self,
                                [k \in 1..Len(t1) |->
                                    IF k >= i /\ k < i + n
                                    THEN Retagged(t1[k], EntrySuffix(e))
                                    ELSE t1[k]],
                                i + n)

\* Entities.apply(tokens)
Entities_apply(self, tokens) == ApplyFrom(self, tokens, 1)

\* Entities.append(entity, name): the dictionary after it.
Entities_append(self, entity, name) ==
    LET e == Map(Lower, Append(Split(entity, <<" ">>), name))
    IN  IF e[1] \in DOMAIN self
        THEN [self EXCEPT ![e[1]] = Append(@, e)]
        ELSE self @@ (e[1] :> <<e>>)

\* The entities, names and tokens of the model.
EntityTexts == {<<"N", "e", "w">>, <<"N", "e", "w", " ", "Y", "o", "r", "k">>, <<"N", "e", "w", " ", "N", "e", "w">>}

EntityNames == {<<"L", "O", "C">>, <<"p", "e", "r", "s">>}

EntityTokens ==
    {<<<<"N", "e", "w">>, T_NN>>, <<<<"N", "e", "w">>, T_NNPS>>, <<<<"Y", "o", "r", "k">>, T_NN>>,
     <<<<"Y", "o", "r", "k">>, T_NNPS>>, <<<<"I">>, T_NN>>, <<<<"h", "t", "t", "p", ":", "/", "/", "a">>, T_NN>>}

\* The number of words in the entries of a dictionary.
RECURSIVE EntryWordCount(_)
EntryWordCount(self) ==
    IF DOMAIN self = {} THEN 0
    ELSE LET k == CHOOSE x \in DOMAIN self : TRUE
         IN  SumLen(self[k]) - Len(self[k])
                 + EntryWordCount([x \in DOMAIN self \ {k} |-> self[x]])

\* entities.append(entity, name)
entities_append ==
    /\ enPc = "build"
    /\ \E entity \in EntityTexts : \E name \in EntityNames :
           /\ EntryWordCount(enDict) + Len(Split(entity, <<" ">>)) <= MaxEntityWords
           /\ enDict' = Entities_append(enDict, entity, name)
    /\ UNCHANGED <<enTokens, enBefore, enPc>>
    /\ UNCHANGED notEntities

\* The caller appends one more [word, tag] token to the list.
entity_tokens_append ==
    /\ enPc = "build"
    /\ Len(enTokens) < MaxEntityTokens
    /\ \E token \in EntityTokens : enTokens' = Append(enTokens, token)
    /\ UNCHANGED <<enDict, enBefore, enPc>>
    /\ UNCHANGED notEntities

\* entities.apply(tokens): the list is changed in place.
entities_apply ==
    /\ enPc \in {"build", "applied"}
    /\ enBefore' = enTokens
    /\ enTokens' = Entities_apply(enDict, enTokens)
    /\ enPc' = IF enPc = "build" THEN "applied" ELSE "again"
    /\ UNCHANGED enDict
    /\ UNCHANGED notEntities

IdleEntities ==
    /\ enDict = EmptyDict
    /\ enTokens = <<>>
    /\ enBefore = <<>>
    /\ enPc = "build"

\* Entities() with no path: an empty dictionary; an empty token list.
InitEntities == IdleEntities

NextEntities ==
    \/ entities_append
    \/ entity_tokens_append
    \/ entities_apply

(***************************************************************************)
(* MORPHOLOGICAL RULES (Morphology)                                        *)
(***************************************************************************)
MaxRules == 2

T_RB == <<"R", "B">>

T_JJ == <<"J", "J">>

\* list.insert(i, r): a negative index counts from the end, an index out of
\* range is clamped.
InsertAt(list, i, r) ==
    LET p == IF i < 0 THEN Max(0, Len(list) + i) ELSE Min(i, Len(list))
    IN  SubSeq(list, 1, p) \o <<r>> \o SubSeq(list, p + 1, Len(list))

\* x.split() for x in _read(path): the fields of every line that is not a
\* comment.
RulesOf(src) ==
    LET lines == SelectSeq(src, LAMBDA x : ~StartsWith(x, <<";", ";", ";">>))
    IN  [k \in 1..Len(lines) |->
            SelectSeq(Split(lines[k], <<" ">>), LAMBDA field : Len(field) > 0)]

\* _lazy: an empty list is loaded before the list method runs.
Loaded(list, src) == IF Len(list) = 0 THEN RulesOf(src) ELSE list

\* Morphology.cmd: the nine commands and their f-forms.
MorphologyCmd ==
    LET base == {<<"c", "h", "a", "r">>, <<"h", "a", "s", "p", "r", "e", "f">>, <<"h", "a", "s", "s", "u", "f">>, <<"a", "d", "d", "p", "r", "e", "f">>, <<"a", "d", "d", "s", "u", "f">>,
                 <<"d", "e", "l", "e", "t", "e", "p", "r", "e", "f">>, <<"d", "e", "l", "e", "t", "e", "s", "u", "f">>, <<"g", "o", "o", "d", "l", "e", "f", "t">>, <<"g", "o", "o", "d", "r", "i", "g", "h", "t">>}
    IN  base \cup {<<"f">> \o k : k \in base}

\* The condition of a rule on the word w.
MorphologyTest(c, x, w, lexicon, previous, next) ==
    \/ c = <<"c", "h", "a", "r">> /\ Contains(w, x)
    \/ c = <<"h", "a", "s", "p", "r", "e", "f">> /\ StartsWith(w, x)
    \/ c = <<"h", "a", "s", "s", "u", "f">> /\ EndsWith(w, x)
    \/ c = <<"a", "d", "d", "p", "r", "e", "f">> /\ (x \o w) \in DOMAIN lexicon
    \/ c = <<"a", "d", "d", "s", "u", "f">> /\ (w \o x) \in DOMAIN lexicon
    \/ c = <<"d", "e", "l", "e", "t", "e", "p", "r", "e", "f">> /\ StartsWith(w, x)
           /\ SubSeq(w, Len(x) + 1, Len(w)) \in DOMAIN lexicon
    \/ c = <<"d", "e", "l", "e", "t", "e", "s", "u", "f">> /\ EndsWith(w, x)
           /\ (IF Len(x) = 0 THEN <<>> ELSE SubSeq(w, 1, Len(w) - Len(x))) \in DOMAIN lexicon
    \/ c = <<"g", "o", "o", "d", "l", "e", "f", "t">> /\ x = next[1]
    \/ c = <<"g", "o", "o", "d", "r", "i", "g", "h", "t">> /\ x = previous[1]

\* f, x, pos, cmd before the first rule has assigned them.
Unassigned == [f |-> FALSE, x |-> <<>>, pos |-> <<>>, cmd |-> NONE]

\* f, x, pos, cmd after the two tests of rule r on its command field; a
\* rule with no command field leaves them as the rule before it set them.
Assigned(r, st) ==
    LET s1 == IF r[2] \in MorphologyCmd
              THEN [f |-> FALSE, x |-> r[1], pos |-> r[Len(r) - 1], cmd |-> Lower(r[2])]
              ELSE st
    IN  IF r[3] \in MorphologyCmd
        THEN [f |-> TRUE, x |-> r[2], pos |-> r[Len(r) - 1],
              cmd |-> LStrip(Lower(r[3]), "f")]
        ELSE s1

\* A rule engine that stops at the first rule that matches.
RECURSIVE MorphologyFrom_FirstMatch(_, _, _, _, _, _, _, _)
MorphologyFrom_FirstMatch(self, k, w, tag, st, lexicon, previous, next) ==
    IF k > Len(self) THEN <<w, tag>>
    ELSE LET r == self[k]
             s == Assigned(r, st)
         IN  IF s.cmd = NONE THEN <<<<"N", "a", "m", "e", "E", "r", "r", "o", "r">>>>
             ELSE IF s.f /\ tag # r[1]
                  THEN MorphologyFrom_FirstMatch(self, k + 1, w, tag, s, lexicon, previous, next)
                  ELSE IF MorphologyTest(s.cmd, s.x, w, lexicon, previous, next)
                       THEN <<w, s.pos>>
                       ELSE MorphologyFrom_FirstMatch(self, k + 1, w, tag, s, lexicon, previous, next)

\* The loop of Morphology.apply from rule k on: tag is token[1] as the rules
\* before k left it.
RECURSIVE MorphologyFrom(_, _, _, _, _, _, _, _)
MorphologyFrom(self, k, w, tag, st, lexicon, previous, next) ==
    IF k > Len(self) THEN <<w, tag>>
    ELSE LET r == self[k]
             s == Assigned(r, st)
         IN  IF s.cmd = NONE THEN <<<<"N", "a", "m", "e", "E", "r", "r", "o", "r">>>>
             ELSE IF s.f /\ tag # r[1]
                  THEN MorphologyFrom(self, k + 1, w, tag, s, lexicon, previous, next)
                  ELSE IF MorphologyTest(s.cmd, s.x, w, lexicon, previous, next)
                       THEN MorphologyFrom(self, k + 1, w, s.pos, s, lexicon, previous, next)
                       ELSE MorphologyFrom(self, k + 1, w, tag, s, lexicon, previous, next)

\* Morphology.apply(token, previous, next) on the loaded list self.
Morphology_apply(self, token, lexicon, previous, next) ==
    MorphologyFrom(self, 1, token[1], token[2], Unassigned, lexicon, previous, next)

\* The rule r that Morphology.insert(i, tag, affix, cmd, tagged) builds:
\* affix[+1:-1], affix[+1:-0] (the empty string) and affix[+0:-1].
Morphology_rule(tag, affix, c, tagged) ==
    LET a1 == IF StartsWith(affix, <<"-">>) /\ EndsWith(affix, <<"-">>)
              THEN <<SubSeq(affix, 2, Len(affix) - 1), <<"c", "h", "a", "r">>>>
              ELSE <<affix, c>>
        a2 == IF StartsWith(a1[1], <<"-">>)
              THEN <<SubSeq(a1[1], 2, 0), <<"h", "a", "s", "s", "u", "f">>>>
              ELSE a1
        a3 == IF EndsWith(a2[1], <<"-">>)
              THEN <<SubSeq(a2[1], 1, Len(a2[1]) - 1), <<"h", "a", "s", "p", "r", "e", "f">>>>
              ELSE a2
    IN  IF Truthy(tagged)
        THEN <<tagged, a3[1], <<"f">> \o LStrip(a3[2], "f"), tag, <<"x">> >>
        ELSE <<a3[1], LStrip(a3[2], "f"), tag, <<"x">> >>

\* The rule lines, the arguments of insert and the tokens of the model.
MorphologyLines ==
    {<<"l", "y", " ", "h", "a", "s", "s", "u", "f", " ", "2", " ", "R", "B", " ", "x">>, <<"R", "B", " ", "l", " ", "f", "h", "a", "s", "p", "r", "e", "f", " ", "1", " ", "J", "J", " ", "x">>,
     <<"N", "N", " ", "o", " ", "f", "c", "h", "a", "r", " ", "1", " ", "R", "B", " ", "x">>, <<"o", "n", " ", "h", "a", "s", "p", "r", "e", "f", " ", "2", " ", "N", "N", " ", "x">>}

MorphologySources == UNION {[1..n -> MorphologyLines] : n \in 0..MaxRules}

Affixes == {<<"-", "l", "y">>, <<"l", "-">>, <<"-", "o", "-">>, <<"l", "y">>}

InsertCmds == {<<"h", "a", "s", "s", "u", "f">>, <<"c", "h", "a", "r">>}

TaggedChoices == {NONE, T_RB}

MorphologyTokens ==
    {<<w, tag>> : w \in {<<"o", "n", "l", "y">>, <<"l", "o", "n", "e", "l", "y">>, <<"u", "p">>}, tag \in {T_NN, T_RB}}

\* No insert or append has stored a rule yet.
NoInsert == [tag |-> NONE, affix |-> <<>>, cmd |-> NONE, tagged |-> NONE]

\* Morphology.insert(i, tag, affix, cmd, tagged): once list.insert is bound
\* to the instance, self.insert is list.insert and takes two arguments.
morphology_insert ==
    /\ moSrc \in MorphologySources
    /\ \E i \in 0..1 : \E affix \in Affixes : \E c \in InsertCmds : \E tagged \in TaggedChoices :
           IF moBound
           THEN /\ moOut' = <<<<"T", "y", "p", "e", "E", "r", "r", "o", "r">>>>
                /\ UNCHANGED <<moRules, moBound, moArgs>>
           ELSE /\ Len(Loaded(moRules, moSrc)) < MaxRules
                /\ moRules' = InsertAt(Loaded(moRules, moSrc), i,
                                       Morphology_rule(T_JJ, affix, c, tagged))
                /\ moBound' = (Len(moRules) = 0)
                /\ moArgs' = [tag |-> T_JJ, affix |-> affix, cmd |-> c, tagged |-> tagged]
                /\ moOut' = NONE
    /\ UNCHANGED <<moSrc, moToken>>
    /\ UNCHANGED notMorphology

\* Morphology.append(tag, affix, cmd, tagged): self.insert(len(self)-1, ...)
morphology_append ==
    /\ moSrc \in MorphologySources
    /\ \E affix \in Affixes : \E c \in InsertCmds : \E tagged \in TaggedChoices :
           \E list \in {Loaded(moRules, moSrc)} :
               IF moBound
               THEN /\ moOut' = <<<<"T", "y", "p", "e", "E", "r", "r", "o", "r">>>>
                    /\ moRules' = list
                    /\ UNCHANGED <<moBound, moArgs>>
               ELSE /\ Len(list) < MaxRules
                    /\ moRules' = InsertAt(Loaded(list, moSrc), Len(list) - 1,
                                           Morphology_rule(T_JJ, affix, c, tagged))
                    /\ moBound' = (Len(list) = 0)
                    /\ moArgs' = [tag |-> T_JJ, affix |-> affix, cmd |-> c, tagged |-> tagged]
                    /\ moOut' = NONE
    /\ UNCHANGED <<moSrc, moToken>>
    /\ UNCHANGED notMorphology

\* Morphology.apply(token) with the default previous and next and the
\* default empty lexicon.
morphology_apply ==
    /\ moSrc \in MorphologySources
    /\ \E token \in MorphologyTokens :
           /\ moToken' = token
           /\ moRules' = Loaded(moRules, moSrc)
           /\ moOut' = Morphology_apply(Loaded(moRules, moSrc), token, EmptyDict,
                                        <<NONE, NONE>>, <<NONE, NONE>>)
    /\ UNCHANGED <<moSrc, moBound, moArgs>>
    /\ UNCHANGED notMorphology

IdleMorphology ==
    /\ moSrc = "idle"
    /\ moRules = <<>>
    /\ moBound = FALSE
    /\ moArgs = NoInsert
    /\ moToken = NONE
    /\ moOut = NONE

\* Morphology(path=source): nothing is loaded yet.
InitMorphology ==
    /\ moSrc \in MorphologySources
    /\ moRules = <<>>
    /\ moBound = FALSE
    /\ moArgs = NoInsert
    /\ moToken = NONE
    /\ moOut = NONE

NextMorphology ==
    \/ morphology_insert
    \/ morphology_append
    \/ morphology_apply

(***************************************************************************)
(* CONTEXTUAL RULES (Context)                                              *)
(***************************************************************************)
MaxContextTokens == 3

T_TO == <<"T", "O">>

T_VBD == <<"V", "B", "D">>

STAART == <<"S", "T", "A", "A", "R", "T">>

\* o = [("STAART", "STAART")] * 3
Delimiters == <<<<STAART, STAART>>, <<STAART, STAART>>, <<STAART, STAART>>>>

\* The condition of a rule with command c and operands x, y at position i of
\* the padded list t: t[i+d][1] is the word and t[i+d][2] the tag at offset d.
ContextTest(c, x, y, t, i) ==
    \/ c = <<"p", "r", "e", "v", "t", "a", "g">> /\ x = t[i - 1][2]
    \/ c = <<"n", "e", "x", "t", "t", "a", "g">> /\ x = t[i + 1][2]
    \/ c = <<"p", "r", "e", "v", "2", "t", "a", "g">> /\ x = t[i - 2][2]
    \/ c = <<"n", "e", "x", "t", "2", "t", "a", "g">> /\ x = t[i + 2][2]
    \/ c = <<"p", "r", "e", "v", "1", "o", "r", "2", "t", "a", "g">> /\ x \in {t[i - 1][2], t[i - 2][2]}
    \/ c = <<"n", "e", "x", "t", "1", "o", "r", "2", "t", "a", "g">> /\ x \in {t[i + 1][2], t[i + 2][2]}
    \/ c = <<"p", "r", "e", "v", "1", "o", "r", "2", "o", "r", "3", "t", "a", "g">> /\ x \in {t[i - 1][2], t[i - 2][2], t[i - 3][2]}
    \/ c = <<"n", "e", "x", "t", "1", "o", "r", "2", "o", "r", "3", "t", "a", "g">> /\ x \in {t[i + 1][2], t[i + 2][2], t[i + 3][2]}
    \/ c = <<"s", "u", "r", "r", "o", "u", "n", "d", "t", "a", "g">> /\ x = t[i - 1][2] /\ y = t[i + 1][2]
    \/ c = <<"c", "u", "r", "w", "d">> /\ x = t[i][1]
    \/ c = <<"p", "r", "e", "v", "w", "d">> /\ x = t[i - 1][1]
    \/ c = <<"n", "e", "x", "t", "w", "d">> /\ x = t[i + 1][1]
    \/ c = <<"p", "r", "e", "v", "1", "o", "r", "2", "w", "d">> /\ x \in {t[i - 1][1], t[i - 2][1]}
    \/ c = <<"n", "e", "x", "t", "1", "o", "r", "2", "w", "d">> /\ x \in {t[i + 1][1], t[i + 2][1]}
    \/ c = <<"p", "r", "e", "v", "w", "d", "t", "a", "g">> /\ x = t[i - 1][1] /\ y = t[i - 1][2]
    \/ c = <<"n", "e", "x", "t", "w", "d", "t", "a", "g">> /\ x = t[i + 1][1] /\ y = t[i + 1][2]
    \/ c = <<"w", "d", "p", "r", "e", "v", "t", "a", "g">> /\ x = t[i - 1][2] /\ y = t[i][1]
    \/ c = <<"w", "d", "n", "e", "x", "t", "t", "a", "g">> /\ x = t[i][1] /\ y = t[i + 1][2]
    \/ c = <<"w", "d", "a", "n", "d", "2", "a", "f", "t">> /\ x = t[i][1] /\ y = t[i + 2][1]
    \/ c = <<"w", "d", "a", "n", "d", "2", "t", "a", "g", "b", "f", "r">> /\ x = t[i - 2][2] /\ y = t[i][1]
    \/ c = <<"w", "d", "a", "n", "d", "2", "t", "a", "g", "a", "f", "t">> /\ x = t[i][1] /\ y = t[i + 2][2]
    \/ c = <<"l", "b", "i", "g", "r", "a", "m">> /\ x = t[i - 1][1] /\ y = t[i][1]
    \/ c = <<"r", "b", "i", "g", "r", "a", "m">> /\ x = t[i][1] /\ y = t[i + 1][1]
    \/ c = <<"p", "r", "e", "v", "b", "i", "g", "r", "a", "m">> /\ x = t[i - 2][2] /\ y = t[i - 1][2]
    \/ c = <<"n", "e", "x", "t", "b", "i", "g", "r", "a", "m">> /\ x = t[i + 1][2] /\ y = t[i + 2][2]

\* Rule r is tested at position i: token is the loop variable, the element
\* the list held at i when the loop reached it.
ContextRuleApplies(r, token, t, i) ==
    /\ token[2] # STAART
    /\ token[2] = r[1] \/ r[1] = <<"*">>
    /\ ContextTest(Lower(r[3]), r[4], IF Len(r) > 4 THEN r[5] ELSE <<>>, t, i)

\* A rule engine that leaves a position at the first rule that matches.
RECURSIVE ContextFrom_FirstMatch(_, _, _, _, _)
ContextFrom_FirstMatch(self, t0, t, i, k) ==
    IF i > Len(t) THEN t
    ELSE IF k > Len(self) THEN ContextFrom_FirstMatch(self, t0, t, i + 1, 1)
         ELSE IF ContextRuleApplies(self[k], t0[i], t, i)
              THEN ContextFrom_FirstMatch(self, t0, [t EXCEPT ![i] = <<t[i][1], self[k][2]>>],
                                          i + 1, 1)
              ELSE ContextFrom_FirstMatch(self, t0, t, i, k + 1)

\* The two loops of Context.apply from position i and rule k on: t0 is the
\* padded list as it was built, t the padded list as the rules left it.
RECURSIVE ContextFrom(_, _, _, _, _)
ContextFrom(self, t0, t, i, k) ==
    IF i > Len(t) THEN t
    ELSE IF k > Len(self) THEN ContextFrom(self, t0, t, i + 1, 1)
         ELSE IF ContextRuleApplies(self[k], t0[i], t, i)
              THEN ContextFrom(self, t0, [t EXCEPT ![i] = <<t[i][1], self[k][2]>>], i, k + 1)
              ELSE ContextFrom(self, t0, t, i, k + 1)

\* Context.apply(tokens) on the loaded list self: t[len(o):-len(o)]
Context_apply(self, tokens) ==
    LET t0 == Delimiters \o tokens \o Delimiters
        t  == ContextFrom(self, t0, t0, 1, 1)
    IN  SubSeq(t, Len(Delimiters) + 1, Len(t) - Len(Delimiters))

\* The rule that Context.insert(i, tag1, tag2, cmd, x, y) builds; a
\* shorthand tag1 holds one " < " or one " > ".
Context_rule(tag1, tag2, c, x, y) ==
    LET s1 == IF Contains(tag1, <<" ", "<", " ">>) /\ ~Truthy(x) /\ ~Truthy(y)
              THEN [tag1 |-> Split(tag1, <<" ", "<", " ">>)[1], x |-> Split(tag1, <<" ", "<", " ">>)[2],
                    cmd |-> <<"p", "r", "e", "v", "t", "a", "g">>]
              ELSE [tag1 |-> tag1, x |-> x, cmd |-> c]
        s2 == IF Contains(s1.tag1, <<" ", ">", " ">>) /\ ~Truthy(s1.x) /\ ~Truthy(y)
              THEN [tag1 |-> Split(s1.tag1, <<" ", ">", " ">>)[2], x |-> Split(s1.tag1, <<" ", ">", " ">>)[1],
                    cmd |-> <<"n", "e", "x", "t", "t", "a", "g">>]
              ELSE s1
    IN  <<s2.tag1, tag2, s2.cmd, IF Truthy(s2.x) THEN s2.x ELSE <<>>,
          IF Truthy(y) THEN y ELSE <<>> >>

\* The rule lines, the arguments of insert and the tokens of the model.
ContextLines ==
    {<<"V", "B", "D", " ", "V", "B", " ", "P", "R", "E", "V", "T", "A", "G", " ", "T", "O">>, <<"V", "B", " ", "T", "O", " ", "P", "R", "E", "V", "T", "A", "G", " ", "T", "O">>,
     <<"*", " ", "V", "B", "D", " ", "N", "E", "X", "T", "T", "A", "G", " ", "T", "O">>, <<"V", "B", "D", " ", "T", "O", " ", "p", "r", "e", "v", "t", "a", "g", " ", "V", "B", "D">>}

ContextSources == UNION {[1..n -> ContextLines] : n \in 0..MaxRules}

Tag1Choices == {<<"V", "B", "D">>, <<"V", "B", "D", " ", "<", " ", "T", "O">>, <<"V", "B", "D", " ", ">", " ", "T", "O">>}

XChoices == {NONE, T_TO}

ContextTokens == {<<<<"g", "o">>, tag>> : tag \in {T_TO, T_VBD}}

ContextTokenLists == UNION {[1..n -> ContextTokens] : n \in 0..MaxContextTokens}

\* What a call left: nothing, the list apply returned, or an exception.
NoResult == [kind |-> "none", tokens |-> <<>>]

Raised(exception) == [kind |-> exception, tokens |-> <<>>]

\* Context.insert(i, tag1, tag2, cmd, x): once list.insert is bound to the
\* instance, self.insert is list.insert and takes two arguments. The rules
\* are put in before apply is given a token.
context_insert ==
    /\ coSrc \in ContextSources
    /\ coOut.kind = "tokens" => coTokens = <<>>
    /\ \E i \in 0..1 : \E tag1 \in Tag1Choices : \E x \in XChoices :
           IF coBound
           THEN /\ coOut' = Raised("TypeError")
                /\ UNCHANGED <<coRules, coBound>>
           ELSE /\ Len(Loaded(coRules, coSrc)) < MaxRules
                /\ coRules' = InsertAt(Loaded(coRules, coSrc), i,
                                       Context_rule(tag1, T_VB, <<"p", "r", "e", "v", "t", "a", "g">>, x, NONE))
                /\ coBound' = (Len(coRules) = 0)
                /\ coOut' = NoResult
    /\ coTokens' = <<>>
    /\ UNCHANGED coSrc
    /\ UNCHANGED notContext

\* Context.append(tag1, tag2, cmd, x): self.insert(len(self)-1, ...)
context_append ==
    /\ coSrc \in ContextSources
    /\ coOut.kind = "tokens" => coTokens = <<>>
    /\ \E tag1 \in Tag1Choices : \E x \in XChoices :
           \E list \in {Loaded(coRules, coSrc)} :
               IF coBound
               THEN /\ coOut' = Raised("TypeError")
                    /\ coRules' = list
                    /\ UNCHANGED coBound
               ELSE /\ Len(list) < MaxRules
                    /\ coRules' = InsertAt(Loaded(list, coSrc), Len(list) - 1,
                                           Context_rule(tag1, T_VB, <<"p", "r", "e", "v", "t", "a", "g">>, x, NONE))
                    /\ coBound' = (Len(list) = 0)
                    /\ coOut' = NoResult
    /\ coTokens' = <<>>
    /\ UNCHANGED coSrc
    /\ UNCHANGED notContext

\* Context.apply(tokens), called once on each state of the list.
context_apply ==
    /\ coSrc \in ContextSources
    /\ coOut.kind # "tokens"
    /\ \E tokens \in ContextTokenLists :
           /\ coTokens' = tokens
           /\ coRules' = Loaded(coRules, coSrc)
           /\ coOut' = [kind |-> "tokens",
                       tokens |-> Context_apply(Loaded(coRules, coSrc), tokens)]
    /\ UNCHANGED <<coSrc, coBound>>
    /\ UNCHANGED notContext

IdleContext ==
    /\ coSrc = "idle"
    /\ coRules = <<>>
    /\ coBound = FALSE
    /\ coTokens = <<>>
    /\ coOut = NoResult

\* Context(path=source): nothing is loaded yet.
InitContext ==
    /\ coSrc \in ContextSources
    /\ coRules = <<>>
    /\ coBound = FALSE
    /\ coTokens = <<>>
    /\ coOut = NoResult

NextContext ==
    \/ context_insert
    \/ context_append
    \/ context_apply

(***************************************************************************)
(* SENTIMENT LEXICON (Sentiment.__init__, Sentiment.load)                  *)
(***************************************************************************)
\* Bound of the lexicon model: how many word elements the file holds.
MaxXmlWords == 2

\* x + y
RAdd(x, y) == RNorm(x[1] * y[2] + y[1] * x[2], x[2] * y[2])

\* sum(list)
RECURSIVE RSum(_)
RSum(list) == IF list = <<>> THEN <<0, 1>> ELSE RAdd(list[1], RSum(Tail(list)))

\* avg(list): sum(list) / float(len(list) or 1)
avg(list) ==
    LET n == IF Len(list) = 0 THEN 1 ELSE Len(list)
        s == RSum(list)
    IN  RNorm(s[1], s[2] * n)

\* [avg(each) for each in zip(*psi)], for a non-empty list of (polarity,
\* subjectivity, intensity) triples.
AvgEach(psi) == [k \in 1..3 |-> avg([j \in 1..Len(psi) |-> psi[j][k]])]

\* The keys of a dict in insertion order: each value of seq once, at the place
\* of its first occurrence.
RECURSIVE Distinct(_)
Distinct(seq) ==
    IF seq = <<>> THEN <<>>
    ELSE LET d == Distinct(SubSeq(seq, 1, Len(seq) - 1))
             last == seq[Len(seq)]
         IN  IF last \in Range(d) THEN d ELSE Append(d, last)

\* A <word> element is the record of its attributes, an absent attribute
\* being NONE (form, confidence) or "None" (pos, label, synset); psi is
\* (float(polarity), float(subjectivity), float(intensity)) and synset is the
\* attribute named by self._synset.
\* The test of the loop: self._confidence is None, or self._confidence <=
\* float(w.attrib.get("confidence", 0.0)).
Confident(confidence, w) ==
    \/ confidence = NONE
    \/ ~RLess(IF w.confidence = NONE THEN <<0, 1>> ELSE w.confidence, confidence)

\* Sentiment.load: the words, labels and synsets read from the word elements
\* xml of a file whose root element has the language attribute root, merged
\* into the tables of self.
Sentiment_load(self, root, xml) ==
    LET read == SelectSeq(xml, LAMBDA w : Confident(self.confidence, w))
        named == SelectSeq(read, LAMBDA w : w.form # NONE /\ w.form # <<>>)
        PsiOf(list) == [j \in 1..Len(list) |-> list[j].psi]
        senses(w, pos) == SelectSeq(named, LAMBDA e : e.form = w /\ e.pos = pos)
        tagsOf(w) == Distinct(Map(LAMBDA e : e.pos, SelectSeq(named, LAMBDA e : e.form = w)))
        perTag(w) == [j \in 1..Len(tagsOf(w)) |-> AvgEach(PsiOf(senses(w, tagsOf(w)[j])))]
        entry(w) == [pos \in Range(tagsOf(w)) \cup {PosNone} |->
                        IF pos = PosNone THEN AvgEach(perTag(w))
                        ELSE AvgEach(PsiOf(senses(w, pos)))]
        words == [w \in {e.form : e \in Range(named)} |-> entry(w)]
        labelled == SelectSeq(named, LAMBDA e : e.label # "None")
        lastLabel(w) ==
            LET of == SelectSeq(labelled, LAMBDA e : e.form = w)
            IN  of[Len(of)].label
        labels == [w \in {e.form : e \in Range(labelled)} |-> lastLabel(w)]
        withId == SelectSeq(read, LAMBDA e : e.synset # "None")
        synsets == [id \in {e.synset : e \in Range(withId)} |->
                       AvgEach(PsiOf(SelectSeq(withId, LAMBDA e : e.synset = id)))]
    IN  [confidence |-> self.confidence,
         language |-> IF root = "None" THEN self.language ELSE root,
         words |-> words @@ self.words,
         labeler |-> labels @@ self.labeler,
         synsets |-> synsets @@ self.synsets]

\* The thresholds a caller may give to the constructor.
ConfidenceChoices == {NONE, <<1, 2>>}

\* The word elements a file may hold.
XmlWords ==
    { [form |-> W_good, pos |-> "JJ", psi |-> << <<7, 10>>, <<3, 5>>, <<1, 1>> >>,
       label |-> "None", synset |-> "a-1", confidence |-> <<9, 10>>],
      [form |-> W_good, pos |-> "JJ", psi |-> << <<3, 10>>, <<1, 5>>, <<1, 1>> >>,
       label |-> "None", synset |-> "a-1", confidence |-> <<3, 10>>],
      [form |-> W_good, pos |-> "NN", psi |-> << <<1, 2>>, <<1, 2>>, <<1, 1>> >>,
       label |-> "None", synset |-> "None", confidence |-> <<1, 2>>],
      [form |-> W_worst, pos |-> "None", psi |-> << <<-1, 1>>, <<1, 1>>, <<1, 1>> >>,
       label |-> "profanity", synset |-> "None", confidence |-> NONE],
      [form |-> W_worst, pos |-> "JJ", psi |-> << <<-1, 2>>, <<1, 1>>, <<1, 1>> >>,
       label |-> "slang", synset |-> "a-2", confidence |-> <<3, 10>>],
      [form |-> NONE, pos |-> "None", psi |-> << <<0, 1>>, <<0, 1>>, <<1, 1>> >>,
       label |-> "None", synset |-> "a-2", confidence |-> <<3, 10>>] }

\* The Sentiment object: its threshold, its language and its three tables.
LexiconSelf ==
    [confidence |-> lxConfidence, language |-> lxLanguage, words |-> lxWords,
     labeler |-> lxLabeler, synsets |-> lxSynsets]

\* ---- the file at self._path gets one more word element.
xml_word_append ==
    /\ lxPc = "build"
    /\ lxExists
    /\ Len(lxXml) < MaxXmlWords
    /\ \E w \in XmlWords : lxXml' = Append(lxXml, w)
    /\ UNCHANGED <<lxArg, lxConfidence, lxLanguage, lxExists, lxRoot, lxWords,
                   lxLabeler, lxSynsets, lxPc>>
    /\ UNCHANGED notLexicon

\* Sentiment.load(): nothing happens when there is no file at the path.
sentiment_load ==
    /\ lxPc \in {"build", "loaded"}
    /\ lxPc' = "loaded"
    /\ IF ~lxExists
       THEN UNCHANGED <<lxConfidence, lxLanguage, lxWords, lxLabeler, lxSynsets>>
       ELSE \E self \in {Sentiment_load(LexiconSelf, lxRoot, lxXml)} :
                /\ lxConfidence' = self.confidence
                /\ lxLanguage' = self.language
                /\ lxWords' = self.words
                /\ lxLabeler' = self.labeler
                /\ lxSynsets' = self.synsets
    /\ UNCHANGED <<lxArg, lxExists, lxRoot, lxXml>>
    /\ UNCHANGED notLexicon

IdleLexicon ==
    /\ lxArg = NONE
    /\ lxConfidence = NONE
    /\ lxLanguage = "None"
    /\ lxExists = FALSE
    /\ lxRoot = "None"
    /\ lxXml = <<>>
    /\ lxWords = EmptyDict
    /\ lxLabeler = EmptyDict
    /\ lxSynsets = EmptyDict
    /\ lxPc = "idle"

\* Sentiment(path, confidence=lxArg): the tables are empty and the threshold
\* and the language are None whatever the arguments.
InitLexicon ==
    /\ lxArg \in ConfidenceChoices
    /\ lxConfidence = NONE
    /\ lxLanguage = "None"
    /\ lxExists \in BOOLEAN
    /\ lxRoot \in {"None", "en"}
    /\ lxXml = <<>>
    /\ lxWords = EmptyDict
    /\ lxLabeler = EmptyDict
    /\ lxSynsets = EmptyDict
    /\ lxPc = "build"

NextLexicon ==
    \/ xml_word_append
    \/ sentiment_load

(***************************************************************************)
(* UNIVERSAL TAGSET (penntreebank2universal)                               *)
(***************************************************************************)
\* The universal codes: NOUN, VERB, ADJ, ADV, PRON, DET, PREP, ADP, NUM,
\* CONJ, INTJ, PRT, PUNC, X = "NN", "VB", "JJ", "RB", "PR", "DT", "PP", "PP",
\* "NO", "CJ", "UH", "PT", ".", "X"
NOUN == <<"N", "N">>

VERB == <<"V", "B">>

ADJ == <<"J", "J">>

ADV == <<"R", "B">>

PRON == <<"P", "R">>

DET == <<"D", "T">>

PREP == <<"P", "P">>

NUM == <<"N", "O">>

CONJ == <<"C", "J">>

INTJ == <<"U", "H">>

PRT == <<"P", "T">>

PUNC == <<".">>

X == <<"X">>

\* Keeps the first hyphen-separated piece after the prefix, not the last, and
\* knows no table.
penntreebank2universal_FirstPiece(token, tag) ==
    IF StartsWith(tag, <<"N", "N", "P", "-">>) \/ StartsWith(tag, <<"N", "N", "P", "S", "-">>)
    THEN <<token, NOUN \o <<"-">> \o Split(tag, <<"-">>)[2]>>
    ELSE <<token, X>>

\* penntreebank2universal(token, tag): a (token, tag)-tuple with a simplified
\* universal part-of-speech tag.
penntreebank2universal(token, tag) ==
    IF StartsWith(tag, <<"N", "N", "P", "-">>) \/ StartsWith(tag, <<"N", "N", "P", "S", "-">>)
    THEN LET pieces == Split(tag, <<"-">>)
         IN  <<token, NOUN \o <<"-">> \o pieces[Len(pieces)]>>
    ELSE IF tag \in {<<"N", "N">>, <<"N", "N", "S">>, <<"N", "N", "P">>, <<"N", "N", "P", "S">>, <<"N", "P">>}
    THEN <<token, NOUN>>
    ELSE IF tag \in {<<"M", "D">>, <<"V", "B">>, <<"V", "B", "D">>, <<"V", "B", "G">>, <<"V", "B", "N">>, <<"V", "B", "P">>, <<"V", "B", "Z">>}
    THEN <<token, VERB>>
    ELSE IF tag \in {<<"J", "J">>, <<"J", "J", "R">>, <<"J", "J", "S">>}
    THEN <<token, ADJ>>
    ELSE IF tag \in {<<"R", "B">>, <<"R", "B", "R">>, <<"R", "B", "S">>, <<"W", "R", "B">>}
    THEN <<token, ADV>>
    ELSE IF tag \in {<<"P", "R", "P">>, <<"P", "R", "P", "$">>, <<"W", "P">>, <<"W", "P", "$">>}
    THEN <<token, PRON>>
    ELSE IF tag \in {<<"D", "T">>, <<"P", "D", "T">>, <<"W", "D", "T">>, <<"E", "X">>}
    THEN <<token, DET>>
    ELSE IF tag \in {<<"I", "N">>}
    THEN <<token, PREP>>
    ELSE IF tag \in {<<"C", "D">>}
    THEN <<token, NUM>>
    ELSE IF tag \in {<<"C", "C">>}
    THEN <<token, CONJ>>
    ELSE IF tag \in {<<"U", "H">>}
    THEN <<token, INTJ>>
    ELSE IF tag \in {<<"P", "O", "S">>, <<"R", "P">>, <<"T", "O">>}
    THEN <<token, PRT>>
    ELSE IF tag \in {<<"S", "Y", "M">>, <<"L", "S">>, <<".">>, <<"!">>, <<"?">>, <<",">>, <<":">>, <<"(">>, <<")">>,
                     <<"\"">>, <<"#">>, <<"$">>}
    THEN <<token, PUNC>>
    ELSE <<token, X>>

\* The tokens and tags a caller may pass: the Penn Treebank tags, tags with
\* an entity suffix (one or two hyphen-separated pieces, possibly empty) and
\* strings that are no Penn Treebank tag.
UniversalTokens == {<<"Y", "o", "r", "k">>, <<"!">>, <<>>}

PennTags ==
    {<<"N", "N">>, <<"N", "N", "S">>, <<"N", "N", "P">>, <<"N", "N", "P", "S">>, <<"N", "P">>, <<"M", "D">>, <<"V", "B">>, <<"V", "B", "D">>, <<"V", "B", "G">>,
     <<"V", "B", "N">>, <<"V", "B", "P">>, <<"V", "B", "Z">>, <<"J", "J">>, <<"J", "J", "R">>, <<"J", "J", "S">>, <<"R", "B">>, <<"R", "B", "R">>, <<"R", "B", "S">>,
     <<"W", "R", "B">>, <<"P", "R", "P">>, <<"P", "R", "P", "$">>, <<"W", "P">>, <<"W", "P", "$">>, <<"D", "T">>, <<"P", "D", "T">>, <<"W", "D", "T">>, <<"E", "X">>,
     <<"I", "N">>, <<"C", "D">>, <<"C", "C">>, <<"U", "H">>, <<"P", "O", "S">>, <<"R", "P">>, <<"T", "O">>, <<"S", "Y", "M">>, <<"L", "S">>, <<".">>,
     <<"!">>, <<"?">>, <<",">>, <<":">>, <<"(">>, <<")">>, <<"\"">>, <<"#">>, <<"$">>}

TagSuffixes == {<<"L", "O", "C">>, <<"P", "E", "R", "S">>, <<"O", "R", "G">>, <<"G", "E", "O">>, <<>>}

SuffixedTags ==
    {head \o <<"-">> \o p : head \in {<<"N", "N", "P">>, <<"N", "N", "P", "S">>, <<"N", "N">>, <<"V", "B">>}, p \in TagSuffixes}
    \cup {head \o <<"-">> \o p \o <<"-">> \o q :
              head \in {<<"N", "N", "P">>, <<"N", "N", "P", "S">>}, p \in TagSuffixes, q \in TagSuffixes}

OtherTags ==
    {<<>>, <<"n", "n">>, <<"N", "N", "P", "X">>, <<"N", "N", "P", "S", "S">>, <<"X", "X">>, <<"X">>, <<"-">>, <<"F", "W">>, <<"N", "N", " ">>, <<"L", "O", "C">>}

UniversalTags == PennTags \cup SuffixedTags \cup OtherTags

\* ---- penntreebank2universal(unToken, unTag)
universal_map ==
    /\ unPc = "call"
    /\ unPc' = "done"
    /\ unOut' = penntreebank2universal(unToken, unTag)
    /\ UNCHANGED <<unToken, unTag>>
    /\ UNCHANGED notUniversal

IdleUniversal ==
    /\ unToken = <<>>
    /\ unTag = <<>>
    /\ unPc = "idle"
    /\ unOut = <<>>

\* A caller has chosen the arguments.
InitUniversal ==
    /\ unToken \in UniversalTokens
    /\ unTag \in UniversalTags
    /\ unPc = "call"
    /\ unOut = <<>>

NextUniversal ==
    \/ universal_map

(***************************************************************************)
(* SPECIFICATIONS                                                          *)
(***************************************************************************)
\* A lazy container under an arbitrary sequence of public operations.
InitSpecLazy ==
    /\ InitLazy
    /\ IdleTagged
    /\ IdleSent
    /\ IdleTags
    /\ IdleParse
    /\ IdleTokens
    /\ IdleEntities
    /\ IdleMorphology
    /\ IdleContext
    /\ IdleLexicon
    /\ IdleUniversal
    /\ IdleCopy

SpecLazy == InitSpecLazy /\ [][NextLazy]_vars

\* A nested list is built, encoded by TaggedString and split back.
InitSpecTagged ==
    /\ InitTagged
    /\ IdleLazy
    /\ IdleSent
    /\ IdleTags
    /\ IdleParse
    /\ IdleTokens
    /\ IdleEntities
    /\ IdleMorphology
    /\ IdleContext
    /\ IdleLexicon
    /\ IdleUniversal
    /\ IdleCopy

SpecTagged == InitSpecTagged /\ [][NextTagged]_vars

InitSpecSent ==
    /\ InitSent
    /\ IdleLazy
    /\ IdleTagged
    /\ IdleTags
    /\ IdleParse
    /\ IdleTokens
    /\ IdleEntities
    /\ IdleMorphology
    /\ IdleContext
    /\ IdleLexicon
    /\ IdleUniversal
    /\ IdleCopy

InitSpecTags ==
    /\ InitTags
    /\ IdleLazy
    /\ IdleTagged
    /\ IdleSent
    /\ IdleParse
    /\ IdleTokens
    /\ IdleEntities
    /\ IdleMorphology
    /\ IdleContext
    /\ IdleLexicon
    /\ IdleUniversal
    /\ IdleCopy

\* find_tags over every token list, lexicon and language of the model.
SpecTags == InitSpecTags /\ [][NextTags]_vars

InitSpecParse ==
    /\ InitParse
    /\ IdleLazy
    /\ IdleTagged
    /\ IdleSent
    /\ IdleTags
    /\ IdleTokens
    /\ IdleEntities
    /\ IdleMorphology
    /\ IdleContext
    /\ IdleLexicon
    /\ IdleUniversal
    /\ IdleCopy

\* Parser.parse over every flag combination and sentence list of the model.
SpecParse == InitSpecParse /\ [][NextParse]_vars

InitSpecTokens ==
    /\ InitTokens
    /\ IdleLazy
    /\ IdleTagged
    /\ IdleSent
    /\ IdleTags
    /\ IdleParse
    /\ IdleEntities
    /\ IdleMorphology
    /\ IdleContext
    /\ IdleLexicon
    /\ IdleUniversal
    /\ IdleCopy

\* find_tokens over every string written from the pieces of the model.
SpecTokens == InitSpecTokens /\ [][NextTokens]_vars

\* A dictionary of named entities is filled, a tagged token list is built
\* and Entities.apply is called on it, once or twice.
InitSpecEntities ==
    /\ InitEntities
    /\ IdleLazy
    /\ IdleTagged
    /\ IdleSent
    /\ IdleTags
    /\ IdleParse
    /\ IdleTokens
    /\ IdleMorphology
    /\ IdleContext
    /\ IdleLexicon
    /\ IdleUniversal
    /\ IdleCopy

SpecEntities == InitSpecEntities /\ [][NextEntities]_vars

\* A Morphology is made on a rule source, rules are inserted and appended
\* and tokens are given to apply.
InitSpecMorphology ==
    /\ InitMorphology
    /\ IdleLazy
    /\ IdleTagged
    /\ IdleSent
    /\ IdleTags
    /\ IdleParse
    /\ IdleTokens
    /\ IdleEntities
    /\ IdleContext
    /\ IdleLexicon
    /\ IdleUniversal
    /\ IdleCopy

SpecMorphology == InitSpecMorphology /\ [][NextMorphology]_vars

\* A Context is made on a rule source, rules are inserted and appended and
\* token lists are given to apply.
InitSpecContext ==
    /\ InitContext
    /\ IdleLazy
    /\ IdleTagged
    /\ IdleSent
    /\ IdleTags
    /\ IdleParse
    /\ IdleTokens
    /\ IdleEntities
    /\ IdleMorphology
    /\ IdleLexicon
    /\ IdleUniversal
    /\ IdleCopy

SpecContext == InitSpecContext /\ [][NextContext]_vars

\* A lexicon file is written and loaded by a Sentiment object.
InitSpecLexicon ==
    /\ InitLexicon
    /\ IdleLazy
    /\ IdleTagged
    /\ IdleSent
    /\ IdleTags
    /\ IdleParse
    /\ IdleTokens
    /\ IdleEntities
    /\ IdleMorphology
    /\ IdleContext
    /\ IdleUniversal
    /\ IdleCopy

SpecLexicon == InitSpecLexicon /\ [][NextLexicon]_vars

\* penntreebank2universal is applied to a token and a tag.
InitSpecUniversal ==
    /\ InitUniversal
    /\ IdleLazy
    /\ IdleTagged
    /\ IdleSent
    /\ IdleTags
    /\ IdleParse
    /\ IdleTokens
    /\ IdleEntities
    /\ IdleMorphology
    /\ IdleContext
    /\ IdleLexicon
    /\ IdleCopy

SpecUniversal == InitSpecUniversal /\ [][NextUniversal]_vars

\* A TaggedString is constructed from a plain string or from a TaggedString.
InitSpecCopy ==
    /\ InitCopy
    /\ IdleLazy
    /\ IdleTagged
    /\ IdleSent
    /\ IdleTags
    /\ IdleParse
    /\ IdleTokens
    /\ IdleEntities
    /\ IdleMorphology
    /\ IdleContext
    /\ IdleLexicon
    /\ IdleUniversal

SpecCopy == InitSpecCopy /\ [][NextCopy]_vars

\* Sentiment.assessments scans a sequence of (word, pos) pairs, called
\* directly or by Sentiment.__call__ on a list or a dict of words.
SpecSent == InitSpecSent /\ [][NextSent]_vars

(***************************************************************************)
(* CLAIMS                                                                  *)
(***************************************************************************)
\* C1: for any lazydict or lazylist and any sequence of public operations
\* (also when load yields no entries, or pop/remove/popitem empty the store)
\* the load step runs at most once per instance.
C1_LoadAtMostOnce == lzKind \in {"dict", "list"} => lzLoads <= 1

\* C3 (as stated): for every nested sentence/token/field list of strings,
\* TaggedString(structure).split() returns a structure equal to the original.
C3_RoundTripAnyList == tsPc = "split" => tsOut = tsInput

\* A field the codec can carry: no space, no newline, no literal "&slash;".
CleanField(x) ==
    /\ ~Contains(x, <<" ">>)
    /\ ~Contains(x, <<"\n">>)
    /\ ~Contains(x, SLASH)

\* A list with no empty sentence and no empty token, of clean fields, other
\* than the list [[[""]]] whose encoding is the empty string.
RoundTrippable(st) ==
    /\ \A i \in 1..Len(st) :
           /\ Len(st[i]) > 0
           /\ \A j \in 1..Len(st[i]) :
                  /\ Len(st[i][j]) > 0
                  /\ \A k \in 1..Len(st[i][j]) : CleanField(st[i][j][k])
    /\ st # << << << <<>> >> >> >>

\* C3 (amended): the round trip holds for every list with no empty sentence
\* and no empty token whose fields hold no space, newline or literal
\* "&slash;" (they may hold "/"), other than [[[""]]]; the empty list splits
\* to the empty list.
C3_RoundTrip ==
    (tsPc = "split" /\ RoundTrippable(tsInput)) => tsOut = tsInput

\* A split of two sentences, one of them with a field holding a "/".
C3_Witness ==
    /\ tsPc = "split"
    /\ RoundTrippable(tsInput)
    /\ Len(tsInput) = 2
    /\ \E i \in 1..Len(tsInput) : \E j \in 1..Len(tsInput[i]) :
           \E k \in 1..Len(tsInput[i][j]) : Contains(tsInput[i][j][k], <<"/">>)
    /\ Contains(tsObj.string, SLASH)
    /\ tsOut = tsInput

\* ---- Sentiment

\* C4: when Sentiment is called with a dict of words, no returned
\* assessment combines two entries of the dict: a negation word or a
\* modifier of the dict never joins the assessment of another entry.
C4_NoCrossEntry ==
    (snMode = "dict" /\ snPc = "done") =>
        \A k \in 1..Len(snOut) :
            Cardinality({j \in 1..Len(snOut[k].w) : snOut[k].w[j] # W_bang}) <= 1

\* The last pair consumed.
LastPair == snWords[Len(snWords)]

\* C5: with negation enabled, the sequence [negation word that is not a
\* lexicon entry, known word w] returns one assessment whose words are
\* [negation word, w] and whose polarity is p * -0.5, p being the stored
\* polarity of w; the sequence [w] alone returns polarity p.
C5_NegationHalves ==
    (snPc = "done" /\ snNegation /\ Len(snWords) \in {1, 2}
        /\ Known(LastPair[1], LastPair[2])) =>
        LET w   == LastPair[1]
            p   == SentimentDict[w][LastPair[2]][1]
            neg == snWords[1][1]
        IN  /\ Len(snWords) = 1 =>
                /\ Len(snOut) = 1
                /\ snOut[1].w = <<w>>
                /\ snOut[1].p = p
            /\ (Len(snWords) = 2 /\ neg \in negations
                    /\ neg \notin DOMAIN SentimentDict) =>
                /\ Len(snOut) = 1
                /\ snOut[1].w = <<neg, w>>
                /\ snOut[1].p = RNorm(-1 * p[1], 2 * p[2])

C5_Witness ==
    /\ snPc = "done"
    /\ snNegation
    /\ snWords = << <<W_not, PosNone>>, <<W_worst, PosNone>> >>
    /\ Len(snOut) = 1
    /\ snOut[1].w = <<W_not, W_worst>>
    /\ snOut[1].p = <<1, 2>>

\* The step of the scan that consumes the token "!" while an assessment exists.
BangStep ==
    /\ snPc = "scan"
    /\ snPc' = "scan"
    /\ Len(snA) > 0
    /\ snWords' = Append(snWords, <<W_bang, PosNone>>)

\* The polarity a return would report for the stored assessment x.
ReportedP(x) == IF x.n < 0 THEN RNorm(-1 * x.p[1], 2 * x.p[2]) ELSE x.p

\* v * 1.25, clamped to [-1, 1]
Times125(v) ==
    LET t == RNorm(5 * v[1], 4 * v[2])
    IN  IF RLess(<<1, 1>>, t) THEN <<1, 1>>
        ELSE IF RLess(t, <<-1, 1>>) THEN <<-1, 1>> ELSE t

\* C6 as stated: a "!" after a sequence whose last assessment has the
\* reported polarity p keeps that assessment, appends "!" to its words and
\* makes its reported polarity clamp(p * 1.25), negated or not.
C6_BoostReported ==
    [][BangStep =>
        /\ Len(snA') = Len(snA)
        /\ snA'[Len(snA)].w = Append(snA[Len(snA)].w, W_bang)
        /\ ReportedP(snA'[Len(snA)]) = Times125(ReportedP(snA[Len(snA)]))]_vars

\* C6: a "!" after a sequence whose last assessment has the stored polarity
\* s keeps that assessment and appends "!" to its words; its reported
\* polarity becomes clamp(s * 1.25) when it is not negated, and
\* -0.5 * clamp(s * 1.25) when it is negated.
C6_BoostStored ==
    [][BangStep =>
        LET old == snA[Len(snA)]
            new == snA'[Len(snA)]
            b   == Times125(old.p)
        IN  /\ Len(snA') = Len(snA)
            /\ new.w = Append(old.w, W_bang)
            /\ new.n = old.n
            /\ ReportedP(new) = IF old.n < 0 THEN RNorm(-1 * b[1], 2 * b[2]) ELSE b]_vars

C6_Witness ==
    /\ snPc = "done"
    /\ snWords = << <<W_not, PosNone>>, <<W_worst, PosNone>>, <<W_bang, PosNone>> >>
    /\ snA[1].n = -1
    /\ snOut[1].w = <<W_not, W_worst, W_bang>>
    /\ snOut[1].p = <<1, 2>>

\* The positions of the token "(!)" among the pairs consumed.
SarcasmPositions == {k \in 1..Len(snWords) : snWords[k][1] = W_sarcasm}

\* The returned assessments that hold the token "(!)".
SarcasmAssessments ==
    {k \in 1..Len(snOut) : \E j \in 1..Len(snOut[k].w) : snOut[k].w[j] = W_sarcasm}

\* C7: every occurrence of the token "(!)" has its own assessment in the
\* returned list, with polarity 0.0, subjectivity 1.0 and the IRONY label,
\* whatever precedes or follows it.
C7_SarcasmIsIrony ==
    snPc = "done" =>
        /\ Cardinality(SarcasmAssessments) = Cardinality(SarcasmPositions)
        /\ \A k \in SarcasmAssessments :
                /\ snOut[k].w[1] = W_sarcasm
                /\ \A j \in 2..Len(snOut[k].w) : snOut[k].w[j] = W_bang
                /\ snOut[k].p = <<0, 1>>
                /\ snOut[k].s = <<1, 1>>
                /\ snOut[k].x = IRONY

C7_Witness ==
    /\ snPc = "done"
    /\ snNegation
    /\ snWords = << <<W_very, PosNone>>, <<W_sarcasm, PosNone>>, <<W_good, PosNone>> >>
    /\ Len(snOut) = 3
    /\ snOut[2].w = <<W_sarcasm>>
    /\ snOut[2].x = IRONY
    /\ snOut[3].w = <<W_good>>

\* ---- find_tags

\* The positions of tgTokens holding a word that is not a lexicon key,
\* starts with an uppercase letter and is not made of digits and punctuation.
UnknownCapitalized ==
    {i \in 1..Len(tgTokens) :
        /\ tgTokens[i] \notin DOMAIN tgLexicon
        /\ Len(tgTokens[i]) > 0
        /\ tgTokens[i][1] \in Range(UpperLetters)
        /\ \E k \in 1..Len(tgTokens[i]) : tgTokens[i][k] \notin CDChars}

\* C8 as stated: for a language other than "de", every unknown capitalized
\* word is tagged NNP, at any position including the first.
C8_CapitalizedIsNNP ==
    (tgPc = "done" /\ tgLanguage # "de") =>
        \A i \in UnknownCapitalized : tgOut[i] = <<tgTokens[i], <<"N", "N", "P">>>>

\* C8: for a language other than "de", every unknown capitalized word is
\* tagged NNP at any position after the first, and at the first position
\* when its lowercase form is not a lexicon key either.
C8_CapitalizedIsNNPUnlessLowerKnown ==
    (tgPc = "done" /\ tgLanguage # "de") =>
        \A i \in UnknownCapitalized :
            (i > 1 \/ Lower(tgTokens[i]) \notin DOMAIN tgLexicon) =>
                tgOut[i] = <<tgTokens[i], <<"N", "N", "P">>>>

C8_Witness ==
    /\ tgPc = "done"
    /\ tgLanguage = "en"
    /\ tgTokens = <<<<"T", "h", "e">>, <<"T", "h", "e">>>>
    /\ <<"t", "h", "e">> \in DOMAIN tgLexicon
    /\ tgOut = << <<<<"T", "h", "e">>, <<"D", "T">>>>, <<<<"T", "h", "e">>, <<"N", "N", "P">>>> >>

\* ---- Parser.parse

\* C2: for every combination of the flags, every token of the returned
\* TaggedString has as many slash-separated fields as the format list has
\* names.
C2_FieldCountIsFormatLength ==
    paPc = "done" =>
        LET sentences == Split(paOut.string, <<"\n">>)
        IN  \A i \in 1..Len(sentences) :
                LET tokens == Split(sentences[i], <<" ">>)
                IN  \A j \in 1..Len(tokens) :
                        Len(Split(tokens[j], <<"/">>)) = Len(paOut.tags)

\* ---- find_tokens

\* The tokens of the sentences returned, in order.
OutTokens == Flatten([k \in 1..Len(tkOut) |-> Split(tkOut[k], <<" ">>)])

\* The pieces that are words, and the contraction suffixes among the pieces.
WordPieces == {<<"d", "o">>, <<"M", "r">>, <<"o">>}

SuffixPieces == {p \in Pieces : InReplace(p)}

\* C9: a word directly followed by a contraction suffix (and then by
\* whitespace or the end of the text) yields the suffix as one token of the
\* output.
C9_SuffixIsOneToken ==
    tkPc = "done" =>
        \A k \in 1..(Len(tkPieces) - 1) :
            (/\ tkPieces[k] \in WordPieces
             /\ tkPieces[k + 1] \in SuffixPieces
             /\ k + 2 <= Len(tkPieces) => tkPieces[k + 2] \in {<<" ">>, <<"\n">>})
                => \E j \in 1..Len(OutTokens) : OutTokens[j] = tkPieces[k + 1]

\* A raw token with a lone trailing period.
LonePeriod(t) ==
    /\ Len(t) >= 1
    /\ t[Len(t)] = "."
    /\ Len(t) >= 2 => t[Len(t) - 1] # "."

\* The raw token without its leading punctuation marks.
Core(t) == SplitLeading(t, <<>>).t

\* An abbreviation: in the abbreviation set, a single letter and a period,
\* alternating letters and periods, or a capital followed by characters of
\* the class bcdfghjklmnpqrstvwxz| and a period.
Abbreviation(t) ==
    \/ t \in ABBREVIATIONS
    \/ Len(t) = 2 /\ IsLetter(t[1]) /\ t[2] = "."
    \/ /\ Len(t) >= 2
       /\ Len(t) % 2 = 0
       /\ \A i \in 1..Len(t) : IF i % 2 = 1 THEN IsLetter(t[i]) ELSE t[i] = "."
    \/ /\ Len(t) >= 3
       /\ t[1] \in Range(UpperLetters)
       /\ \A i \in 2..(Len(t) - 1) : t[i] \in Range(<<"b", "c", "d", "f", "g", "h", "j", "k", "l", "m", "n", "p", "q", "r", "s", "t", "v", "w", "x", "z", "|">>)
       /\ t[Len(t)] = "."

\* The tokens of the k-th sentence returned.
SentenceTokens(k) == Split(tkOut[k], <<" ">>)

LastOf(s) == s[Len(s)]

\* The one-character tokens the glyph g is cut into.
GlyphTokens(g) == [i \in 1..Len(g) |-> <<g[i]>>]

\* What the period split from the raw token ends up as, the tokens up to
\* and including it being toks: the token "." when rejoin is FALSE; with
\* rejoin, the emoticon glyph that the tokens before it and the period spell
\* (the sentinel left out), if there is one.
PeriodToken(toks, rejoin) ==
    LET gs == {g \in Glyphs : /\ g[Len(g)] = "."
                               /\ EndsWith(SelectNot(toks, EOS), GlyphTokens(g))}
    IN  IF rejoin /\ gs # {} THEN CHOOSE g \in gs : TRUE ELSE <<".">>

\* The tokens of tkTokens up to the last period token.
UpToLastPeriod ==
    LET ks == {k \in 1..Len(tkTokens) : tkTokens[k] = <<".">>}
    IN  SubSeq(tkTokens, 1, CHOOSE k \in ks : \A m \in ks : m <= k)

\* The statement of C10 about the last two raw tokens of the text, the
\* emoticon step being taken into account or not.
PeriodRule(rejoin) ==
    (tkPc = "done" /\ Len(tkRaw) >= 1) =>
        LET last == tkRaw[Len(tkRaw)]
            n    == Len(tkOut)
        IN  /\ LonePeriod(last) =>
                /\ n >= 1
                /\ LastOf(SentenceTokens(n)) =
                       IF Abbreviation(Core(last)) THEN Core(last)
                       ELSE PeriodToken(tkTokens, rejoin)
            /\ (Len(tkRaw) >= 2 /\ LonePeriod(tkRaw[Len(tkRaw) - 1]) /\ IsAlpha(last)) =>
                LET prev == tkRaw[Len(tkRaw) - 1]
                IN  IF Abbreviation(Core(prev))
                    THEN /\ n >= 1
                         /\ EndsWith(SentenceTokens(n), <<Core(prev), last>>)
                    ELSE /\ n >= 2
                         /\ SentenceTokens(n) = <<last>>
                         /\ LastOf(SentenceTokens(n - 1)) =
                                PeriodToken(UpToLastPeriod, rejoin)

BlankLineBetween(k, m) ==
    /\ k + 2 < m
    /\ tkPieces[k] \in WordPieces
    /\ tkPieces[m] \in WordPieces
    /\ \A j \in (k + 1)..(m - 1) : tkPieces[j] = <<"\n">>

\* C11: a run of two or more newlines between two words is a sentence
\* boundary even without terminal punctuation: the output is the sentences
\* of the text up to the first word followed by the sentences of the text
\* from the second word on (each part has at least one sentence, so the two
\* words are in different sentences), and no token of any output sentence is
\* the END-OF-SENTENCE sentinel.
C11_BlankLineSeparates ==
    tkPc = "done" =>
        /\ \A t \in Range(OutTokens) : t # EOS
        /\ \A k \in 1..Len(tkPieces) : \A m \in 1..Len(tkPieces) :
               BlankLineBetween(k, m) =>
                   LET before == find_tokens(Flatten(SubSeq(tkPieces, 1, k)))
                       after  == find_tokens(Flatten(SubSeq(tkPieces, m, Len(tkPieces))))
                   IN  /\ Len(before) > 0
                       /\ Len(after) > 0
                       /\ tkOut = before \o after

\* "do\n\ndo" has been tokenized into the two sentences "do" and "do".
C11_Witness ==
    /\ tkPc = "done"
    /\ tkPieces = <<<<"d", "o">>, <<"\n">>, <<"\n">>, <<"d", "o">>>>
    /\ tkOut = <<<<"d", "o">>, <<"d", "o">>>>

\* The entries of the dictionary.
Entries == UNION {Range(enDict[k]) : k \in DOMAIN enDict}

\* The words of entry e are the lowercased words of the tokens i, i+1, ...
\* of the list given to apply.
OccursAt(e, i) ==
    /\ i + Len(e) - 2 <= Len(enBefore)
    /\ \A j \in 1..(Len(e) - 1) : Lower(enBefore[i + j - 1][1]) = e[j]

\* Token k lies in the leftmost occurrence of entry e.
InLeftmost(e, k) ==
    \E i \in 1..Len(enBefore) :
        /\ OccursAt(e, i)
        /\ \A h \in 1..(i - 1) : ~OccursAt(e, h)
        /\ k >= i
        /\ k < i + Len(e) - 1

\* Token k lies in some occurrence of some entry.
InSomeSpan(k) ==
    \E e \in Entries : \E i \in 1..k : OccursAt(e, i) /\ k < i + Len(e) - 1

\* The word of token k is a URL, a web address or an e-mail address.
IsAddress(k) ==
    \/ IsPrefixAt(Lower(enBefore[k][1]), <<"h", "t", "t", "p", ":", "/", "/">>, 1)
    \/ IsPrefixAt(Lower(enBefore[k][1]), <<"w", "w", "w", ".">>, 1)
    \/ \E a \in 1..Len(enBefore[k][1]) : enBefore[k][1][a] = "@"

\* apply keeps the words and the length of the list, and the tag of every
\* token that is an address or lies in no occurrence of an entry.
TagsOutsideKept ==
    /\ Len(enTokens) = Len(enBefore)
    /\ \A k \in 1..Len(enBefore) :
           /\ enTokens[k][1] = enBefore[k][1]
           /\ ~InSomeSpan(k) /\ ~IsAddress(k) => enTokens[k][2] = enBefore[k][2]

\* The tags of the tokens of the span of the one entry of the dictionary,
\* given the tag each such token gets.
SpanTags(tagOf(_, _)) ==
    \A e \in Entries :
        Entries = {e} /\ e[Len(e)] \in cmd =>
            \A k \in 1..Len(enBefore) :
                InLeftmost(e, k) => enTokens[k][2] = tagOf(e, k)

EntityTagOf(e, k) == <<"N", "N", "P", "-">> \o Upper(e[Len(e)])

KeptPluralTagOf(e, k) ==
    (IF enBefore[k][2] = <<"N", "N", "P", "S">> THEN <<"N", "N", "P", "S", "-">> ELSE <<"N", "N", "P", "-">>) \o Upper(e[Len(e)])

\* C12 as stated: with one entry of n words and a category in the
\* dictionary, apply gives every token of the leftmost span of those words
\* the tag NNP-CATEGORY, and keeps the tag of every token outside every span
\* (and not an address).
C12_SpanIsEntityTag ==
    enPc = "applied" => SpanTags(EntityTagOf) /\ TagsOutsideKept

\* C12: with one entry of n words and a category in the dictionary, apply
\* gives every token of the leftmost span of those words the tag
\* NNP-CATEGORY, or NNPS-CATEGORY when the token was tagged NNPS, and keeps
\* the tag of every token outside every span (and not an address).
C12_SpanIsEntityTagOrNNPS ==
    enPc = "applied" => SpanTags(KeptPluralTagOf) /\ TagsOutsideKept

\* "new york" -> loc applied to I/NN New/NN York/NNPS.
C12_Witness ==
    /\ enPc = "applied"
    /\ Entries = {<<<<"n", "e", "w">>, <<"y", "o", "r", "k">>, <<"l", "o", "c">>>>}
    /\ enBefore = <<<<<<"I">>, <<"N", "N">>>>, <<<<"N", "e", "w">>, <<"N", "N">>>>, <<<<"Y", "o", "r", "k">>, <<"N", "N", "P", "S">>>>>>
    /\ enTokens = <<<<<<"I">>, <<"N", "N">>>>, <<<<"N", "e", "w">>, <<"N", "N", "P", "-", "L", "O", "C">>>>, <<<<"Y", "o", "r", "k">>, <<"N", "N", "P", "S", "-", "L", "O", "C">>>>>>

\* The rule r, with its fields as the list holds them, is conditional (it
\* names the tag a word must have), and its affix, command and target tag.
RuleIsConditional(r) == Len(r[3]) > 0 /\ r[3][1] = "f"

RuleAffix(r) == IF RuleIsConditional(r) THEN r[2] ELSE r[1]

RuleCommand(r) == IF RuleIsConditional(r) THEN Tail(r[3]) ELSE r[2]

RuleTarget(r) == r[Len(r) - 1]

\* Rule r matches the word w when the word is tagged tag.
RuleMatches(r, w, tag) ==
    /\ RuleIsConditional(r) => tag = r[1]
    /\ \/ RuleCommand(r) = <<"h", "a", "s", "s", "u", "f">> /\ EndsWith(w, RuleAffix(r))
       \/ RuleCommand(r) = <<"h", "a", "s", "p", "r", "e", "f">> /\ StartsWith(w, RuleAffix(r))
       \/ RuleCommand(r) = <<"c", "h", "a", "r">> /\ Contains(w, RuleAffix(r))

\* The tag of the token given to apply after the first k rules of the list.
RECURSIVE TagAfter(_)
TagAfter(k) ==
    IF k = 0 THEN moToken[2]
    ELSE IF RuleMatches(moRules[k], moToken[1], TagAfter(k - 1))
         THEN RuleTarget(moRules[k])
         ELSE TagAfter(k - 1)

\* The rules that match the token, each tested against the tag the rules
\* before it left.
MatchingRules ==
    {k \in 1..Len(moRules) : RuleMatches(moRules[k], moToken[1], TagAfter(k - 1))}

\* C13: apply returns the token with the target tag of the last rule of the
\* list that matches (a conditional rule being tested against the tag as the
\* earlier rules left it), and with its original tag when no rule matches.
C13_LastMatchingRuleDecides ==
    Len(moOut) = 2 =>
        /\ moOut[1] = moToken[1]
        /\ moOut[2] = IF MatchingRules = {} THEN moToken[2]
                      ELSE RuleTarget(moRules[CHOOSE k \in MatchingRules :
                                                 \A h \in MatchingRules : h <= k])

\* lonely/NN under the rules "ly hassuf 2 RB x" and "RB l fhaspref 1 JJ x":
\* both match, the second because of the first, and the result is JJ.
C13_Witness ==
    /\ moRules = <<<<<<"l", "y">>, <<"h", "a", "s", "s", "u", "f">>, <<"2">>, <<"R", "B">>, <<"x">>>>,
                   <<<<"R", "B">>, <<"l">>, <<"f", "h", "a", "s", "p", "r", "e", "f">>, <<"1">>, <<"J", "J">>, <<"x">>>>>>
    /\ moToken = <<<<"l", "o", "n", "e", "l", "y">>, <<"N", "N">>>>
    /\ moOut = <<<<"l", "o", "n", "e", "l", "y">>, <<"J", "J">>>>
    /\ MatchingRules = {1, 2}

\* The affix between the dashes of "-x", "-x-" or "x-".
AffixOperand(affix) ==
    SubSeq(affix, IF affix[1] = "-" THEN 2 ELSE 1,
                  IF affix[Len(affix)] = "-" THEN Len(affix) - 1 ELSE Len(affix))

\* The command the dashes of an affix stand for.
AffixCommand(affix) ==
    IF affix[1] = "-" /\ affix[Len(affix)] = "-" THEN <<"c", "h", "a", "r">>
    ELSE IF affix[1] = "-" THEN <<"h", "a", "s", "s", "u", "f">> ELSE <<"h", "a", "s", "p", "r", "e", "f">>

\* The word w has the affix: it ends in x for "-x", contains x for "-x-",
\* starts with x for "x-".
HasAffix(w, affix) ==
    LET x == AffixOperand(affix)
    IN  IF AffixCommand(affix) = <<"c", "h", "a", "r">> THEN Contains(w, x)
        ELSE IF AffixCommand(affix) = <<"h", "a", "s", "s", "u", "f">> THEN EndsWith(w, x)
             ELSE StartsWith(w, x)

\* C15: after insert with an affix "-x", "-x-" or "x-" the list holds the
\* hassuf, char or haspref rule on x for the given tag, in the conditional
\* five-field form when a current tag is required, so that apply on that
\* rule alone retags exactly the words with that affix (and that tag).
C15_InsertStoresAffixRule ==
    moArgs.tag # NONE /\ (moArgs.affix[1] = "-" \/ moArgs.affix[Len(moArgs.affix)] = "-") =>
        /\ (IF moArgs.tagged # NONE
            THEN <<moArgs.tagged, AffixOperand(moArgs.affix),
                   <<"f">> \o AffixCommand(moArgs.affix), moArgs.tag, <<"x">> >>
            ELSE <<AffixOperand(moArgs.affix), AffixCommand(moArgs.affix),
                   moArgs.tag, <<"x">> >>) \in Range(moRules)
        /\ Len(moRules) = 1 /\ Len(moOut) = 2 =>
               moOut[2] = IF /\ HasAffix(moToken[1], moArgs.affix)
                             /\ moArgs.tagged # NONE => moToken[2] = moArgs.tagged
                          THEN moArgs.tag
                          ELSE moToken[2]

\* The tag of the token before token k when apply reaches token k: the tag
\* apply returned for it, STAART before the first token.
TagBefore(k) == IF k = 1 THEN <<"S", "T", "A", "A", "R", "T">> ELSE coOut.tokens[k - 1][2]

\* The tag of the token after token k when apply reaches token k: the tag
\* it was given with, STAART after the last token.
TagAfterToken(k) == IF k = Len(coTokens) THEN <<"S", "T", "A", "A", "R", "T">> ELSE coTokens[k + 1][2]

\* The prevtag or nexttag rule r matches token k.
ContextRuleMatches(r, k) ==
    /\ r[1] = coTokens[k][2] \/ r[1] = <<"*">>
    /\ \/ Lower(r[3]) = <<"p", "r", "e", "v", "t", "a", "g">> /\ r[4] = TagBefore(k)
       \/ Lower(r[3]) = <<"n", "e", "x", "t", "t", "a", "g">> /\ r[4] = TagAfterToken(k)

ContextMatches(k) == {j \in 1..Len(coRules) : ContextRuleMatches(coRules[j], k)}

C16_IndexingLoadsFirst ==
    lzKind = "list" /\ Len(lzSrc) > 0 /\ lzLoads = 0 => lzRet # "IndexError"

\* C17: the format list of the TaggedString that parse returns is word, then
\* part-of-speech iff tags, then chunk and preposition iff chunks or
\* relations, then relation iff relations, then lemma iff lemmata.
C17_FormatFollowsFlags ==
    paPc = "done" =>
        paOut.tags =
            <<<<"w", "o", "r", "d">>>>
                \o (IF paFlags.tags THEN <<<<"p", "a", "r", "t", "-", "o", "f", "-", "s", "p", "e", "e", "c", "h">>>> ELSE <<>>)
                \o (IF paFlags.chunks \/ paFlags.relations
                    THEN <<<<"c", "h", "u", "n", "k">>, <<"p", "r", "e", "p", "o", "s", "i", "t", "i", "o", "n">>>> ELSE <<>>)
                \o (IF paFlags.relations THEN <<<<"r", "e", "l", "a", "t", "i", "o", "n">>>> ELSE <<>>)
                \o (IF paFlags.lemmata THEN <<<<"l", "e", "m", "m", "a">>>> ELSE <<>>)

\* The confidence of a word element (0.0 when the attribute is absent) is
\* below the threshold c.
BelowThreshold(c, w) ==
    RLess(IF w.confidence = NONE THEN <<0, 1>> ELSE w.confidence, c)

\* What a freshly constructed Sentiment holds after loading the word elements
\* xml with no threshold at all.
TablesOf(xml) ==
    LET fresh == [confidence |-> NONE, language |-> "None", words |-> EmptyDict,
                  labeler |-> EmptyDict, synsets |-> EmptyDict]
        self == Sentiment_load(fresh, "None", xml)
    IN  <<self.words, self.labeler, self.synsets>>

\* C18: when a Sentiment is constructed with a confidence threshold c, then
\* after loading no word element whose confidence is below c contributes to
\* the word table, the label table or the synset table: the three tables are
\* those of the file without the elements below c.
C18_BelowThresholdSkipped ==
    lxPc = "loaded" /\ lxExists /\ lxArg # NONE =>
        <<lxWords, lxLabeler, lxSynsets>> =
            TablesOf(SelectSeq(lxXml, LAMBDA w : ~BelowThreshold(lxArg, w)))

\* The documented table: NN/NNS/NNP/NNPS/NP -> NOUN; MD/VB/VBD/VBG/VBN/VBP/VBZ
\* -> VERB; JJ/JJR/JJS -> ADJ; RB/RBR/RBS/WRB -> ADV; PRP/PRP$/WP/WP$ -> PRON;
\* DT/PDT/WDT/EX -> DET; IN -> PREP; CD -> NUM; CC -> CONJ; UH -> INTJ;
\* POS/RP/TO -> PRT; SYM/LS and the punctuation marks -> PUNC, the codes being
\* NN, VB, JJ, RB, PR, DT, PP, NO, CJ, UH, PT and ".".
DocumentedTable ==
    [tag \in {<<"N", "N">>, <<"N", "N", "S">>, <<"N", "N", "P">>, <<"N", "N", "P", "S">>, <<"N", "P">>} |-> <<"N", "N">>] @@
    [tag \in {<<"M", "D">>, <<"V", "B">>, <<"V", "B", "D">>, <<"V", "B", "G">>, <<"V", "B", "N">>, <<"V", "B", "P">>, <<"V", "B", "Z">>} |-> <<"V", "B">>] @@
    [tag \in {<<"J", "J">>, <<"J", "J", "R">>, <<"J", "J", "S">>} |-> <<"J", "J">>] @@
    [tag \in {<<"R", "B">>, <<"R", "B", "R">>, <<"R", "B", "S">>, <<"W", "R", "B">>} |-> <<"R", "B">>] @@
    [tag \in {<<"P", "R", "P">>, <<"P", "R", "P", "$">>, <<"W", "P">>, <<"W", "P", "$">>} |-> <<"P", "R">>] @@
    [tag \in {<<"D", "T">>, <<"P", "D", "T">>, <<"W", "D", "T">>, <<"E", "X">>} |-> <<"D", "T">>] @@
    [tag \in {<<"I", "N">>} |-> <<"P", "P">>] @@
    [tag \in {<<"C", "D">>} |-> <<"N", "O">>] @@
    [tag \in {<<"C", "C">>} |-> <<"C", "J">>] @@
    [tag \in {<<"U", "H">>} |-> <<"U", "H">>] @@
    [tag \in {<<"P", "O", "S">>, <<"R", "P">>, <<"T", "O">>} |-> <<"P", "T">>] @@
    [tag \in {<<"S", "Y", "M">>, <<"L", "S">>, <<".">>, <<"!">>, <<"?">>, <<",">>, <<":">>, <<"(">>, <<")">>, <<"\"">>,
              <<"#">>, <<"$">>} |-> <<".">>]

\* The tag has the form NNP-<suffix> or NNPS-<suffix>.
IsSuffixedProperNoun(tag) ==
    \/ Len(tag) >= 4 /\ SubSeq(tag, 1, 4) = <<"N", "N", "P", "-">>
    \/ Len(tag) >= 5 /\ SubSeq(tag, 1, 5) = <<"N", "N", "P", "S", "-">>

\* <suffix>: what follows NNP- or NNPS-.
SuffixOfTag(tag) ==
    IF SubSeq(tag, 1, 4) = <<"N", "N", "P", "-">> THEN SubSeq(tag, 5, Len(tag))
    ELSE SubSeq(tag, 6, Len(tag))

\* What follows the last hyphen of s (s itself when it has none).
AfterLastHyphen(s) ==
    LET at == {i \in 1..Len(s) : s[i] = "-"}
        last == IF at = {} THEN 0 ELSE CHOOSE i \in at : \A j \in at : j <= i
    IN  SubSeq(s, last + 1, Len(s))

\* The result on a tag whose suffix is carried over as kept(<suffix>).
UniversalResult(kept(_)) ==
    /\ unOut[1] = unToken
    /\ unOut[2] = IF IsSuffixedProperNoun(unTag)
                  THEN <<"N", "N", "-">> \o kept(SuffixOfTag(unTag))
                  ELSE IF unTag \in DOMAIN DocumentedTable
                       THEN DocumentedTable[unTag]
                       ELSE <<"X">>

WholeSuffix(s) == s

\* C19 as stated: the token is returned unchanged, every tag of the table
\* gets its universal code, every other tag gets X, and NNP-<suffix> or
\* NNPS-<suffix> gets NOUN-<suffix> with the whole suffix.
C19_SuffixPreserved == unPc = "done" => UniversalResult(WholeSuffix)

\* C19, amended: as above, except that of the suffix only the part after its
\* last hyphen is kept (the whole suffix when it has no hyphen, as PERS, LOC
\* and ORG).
C19_LastPiecePreserved == unPc = "done" => UniversalResult(AfterLastHyphen)

\* A suffixed proper-noun tag whose suffix has a hyphen has been mapped.
C19_Witness ==
    /\ unPc = "done"
    /\ unTag = <<"N", "N", "P", "S", "-", "G", "E", "O", "-", "L", "O", "C">>
    /\ unOut = <<unToken, <<"N", "N", "-", "L", "O", "C">>>>

\* C20: constructing a TaggedString from an existing TaggedString yields a
\* value whose field list (tags) and language are those of the source value,
\* whatever tags and language are given separately to the constructor.
C20_CopyKeepsTagsAndLanguage ==
    cpPc = "made" /\ cpString.type = "TaggedString" =>
        cpObj.tags = cpString.tags /\ cpObj.language = cpString.language

\* The prevtag or nexttag condition of rule r holds at token k.
ContextConditionHolds(r, k) ==
    \/ Lower(r[3]) = <<"p", "r", "e", "v", "t", "a", "g">> /\ r[4] = TagBefore(k)
    \/ Lower(r[3]) = <<"n", "e", "x", "t", "t", "a", "g">> /\ r[4] = TagAfterToken(k)

\* The tag of token k after rules j, j+1, ... when each rule is tested
\* against the tag the earlier rules left on the token.
RECURSIVE CurrentTagAfter(_, _, _)
CurrentTagAfter(k, j, tag) ==
    IF j > Len(coRules) THEN tag
    ELSE LET r == coRules[j]
         IN  CurrentTagAfter(k, j + 1,
                 IF (r[1] = tag \/ r[1] = <<"*">>) /\ ContextConditionHolds(r, k)
                 THEN r[2] ELSE tag)

\* C21: at each token position every rule is tested against the token's
\* current tag, the tag left by the earlier rules that matched at that
\* position in the same call: after r1 retags the token from A to B, a later
\* rule with source tag B is evaluated and a later rule with source tag A is
\* skipped.
C21_RulesSeeCurrentTag ==
    coOut.kind = "tokens" =>
        \A k \in 1..Len(coTokens) :
            coOut.tokens[k][2] = CurrentTagAfter(k, 1, coTokens[k][2])

\* The word of the pair scanned last and whether it was an unknown word.
LastWord == snWords[Len(snWords)][1]

LastIsUnknown ==
    /\ Len(snWords) > 0
    /\ LastWord # NONE
    /\ ~(LastWord \in DOMAIN SentimentDict
         /\ snWords[Len(snWords)][2] \in DOMAIN SentimentDict[LastWord])

\* The emoticon categories one of whose glyphs equals w up to letter case.
CategoriesUpToCase(w) ==
    {c \in EMOTICONS : \E g \in c.e : Lower(g) = Lower(w)}

\* C22: every unknown token of at most 5 characters that is not purely
\* alphabetic and not punctuation, and that equals a glyph of the emoticon
\* table up to letter case, starts a new assessment with that category's
\* polarity, subjectivity 1.0 and the MOOD label.
C22_EmoticonAnyCase ==
    /\ snPc = "scan"
    /\ LastIsUnknown
    /\ Len(LastWord) <= 5
    /\ ~(\A i \in 1..Len(LastWord) : IsLetter(LastWord[i]))
    /\ ~Contains(PUNCTUATION, LastWord)
    /\ CategoriesUpToCase(LastWord) # {}
    => /\ Len(snA) > 0
       /\ snA[Len(snA)].w = <<LastWord>>
       /\ snA[Len(snA)].x = MOOD
       /\ snA[Len(snA)].s = <<1, 1>>
       /\ \E c \in CategoriesUpToCase(LastWord) : snA[Len(snA)].p = c.p

\* Pair k of the scan is a word the lexicon knows under its tag.
KnownAt(k) ==
    /\ snWords[k][1] # NONE
    /\ snWords[k][1] \in DOMAIN SentimentDict
    /\ snWords[k][2] \in DOMAIN SentimentDict[snWords[k][1]]

\* Pair k is a word the lexicon does not know under its tag.
UnknownAt(k) == snWords[k][1] # NONE /\ ~KnownAt(k)

IsNegationWord(w) == w \in {<<"n", "o">>, <<"n", "o", "t">>, <<"n", "'", "t">>, <<"n", "e", "v", "e", "r">>}

\* The word without its leading and trailing quote characters.
RECURSIVE Unquoted(_)
Unquoted(w) ==
    IF Len(w) > 0 /\ w[1] = "'" THEN Unquoted(Tail(w))
    ELSE IF Len(w) > 0 /\ w[Len(w)] = "'" THEN Unquoted(SubSeq(w, 1, Len(w) - 1))
         ELSE w

\* The lexicon knows the word of the pair under the tag of the pair.
KnownPair(pair) ==
    /\ pair[1] \in DOMAIN SentimentDict
    /\ pair[2] \in DOMAIN SentimentDict[pair[1]]

\* The step scans one more pair whose word is w; known tells whether the
\* lexicon knows it under its tag.
ScansWord(w, known) ==
    /\ snPc = "scan"
    /\ snPc' = "scan"
    /\ Len(snWords') = Len(snWords) + 1
    /\ snWords'[Len(snWords')][1] = w
    /\ w # NONE
    /\ known = KnownPair(snWords'[Len(snWords')])

\* C23: a pending negation survives every unknown non-negation word of
\* length at most 1 (without its quote characters) and is cleared by an
\* unknown non-negation word longer than that; a known word scanned while a
\* negation is pending is negated (its assessment is marked negated and
\* starts with the negation word), and a known word scanned while none is
\* pending gets no negation word before it: its assessment holds the word
\* alone, or the words of the preceding assessment and then the word.
C23_NegationScope ==
    [][\A w \in InputWords :
           /\ ScansWord(w, FALSE) /\ snN # NONE /\ ~IsNegationWord(w) =>
                  snN' = IF Len(Unquoted(w)) <= 1 THEN snN ELSE NONE
           /\ ScansWord(w, TRUE) /\ snN # NONE =>
                  /\ snA'[Len(snA')].n = -1
                  /\ snA'[Len(snA')].w[1] = snN
           /\ ScansWord(w, TRUE) /\ snN = NONE =>
                  \/ snA'[Len(snA')].w = <<w>>
                  \/ Len(snA) > 0 /\ snA'[Len(snA')].w = Append(snA[Len(snA)].w, w)]_vars

\* "not a good" and "not movie good" have been scanned: the first good is
\* negated, the second is not.
C23_Witness ==
    /\ snPc = "scan"
    /\ snNegation
    /\ snWords = <<<<W_not, PosNone>>, <<W_a, PosNone>>, <<W_good, PosNone>>>>
    /\ snA[Len(snA)].n = -1
    /\ snA[Len(snA)].w = <<W_not, W_good>>

\* C24: after Morphology.append(...) on a rule list that already holds at
\* least one rule, the new rule is the last element of the list (and so,
\* under last-match-wins, takes precedence over the rules already present).
C24_AppendedRuleIsLast ==
    [][morphology_append /\ Len(Loaded(moRules, moSrc)) >= 1 /\ moOut' = NONE =>
           moRules'[Len(moRules')] =
               Morphology_rule(moArgs'.tag, moArgs'.affix, moArgs'.cmd, moArgs'.tagged)]_vars

\* C26: Entities.apply is idempotent on tags: applied a second time, to its
\* own output, it leaves every tag as the first application left it.
C26_ApplyIsIdempotent ==
    enPc = "again" =>
        /\ Len(enTokens) = Len(enBefore)
        /\ \A k \in 1..Len(enTokens) : enTokens[k][2] = enBefore[k][2]

\* The tag is NNPS followed by a category: NNPS-<CATEGORY>.
IsPluralWithCategory(tag) == Len(tag) > 5 /\ SubSeq(tag, 1, 5) = <<"N", "N", "P", "S", "-">>

\* C26, amended: a second application leaves every tag as the first left
\* it, except the tags NNPS-<CATEGORY> (given by the first application to the
\* NNPS tokens of a span whose entry has a category), which the second
\* application turns into NNP-<CATEGORY>.
C26_IdempotentButPluralInSpan ==
    enPc = "again" =>
        /\ Len(enTokens) = Len(enBefore)
        /\ \A k \in 1..Len(enTokens) :
               enTokens[k][2] =
                   IF IsPluralWithCategory(enBefore[k][2])
                   THEN <<"N", "N", "P">> \o SubSeq(enBefore[k][2], 5, Len(enBefore[k][2]))
                   ELSE enBefore[k][2]

\* "new york" -> loc applied twice to New/NN York/NNPS: York is NNPS-LOC
\* after the first application and NNP-LOC after the second.
C26_Witness ==
    /\ enPc = "again"
    /\ Entries = {<<<<"n", "e", "w">>, <<"y", "o", "r", "k">>, <<"l", "o", "c">>>>}
    /\ enBefore = <<<<<<"N", "e", "w">>, <<"N", "N", "P", "-", "L", "O", "C">>>>, <<<<"Y", "o", "r", "k">>, <<"N", "N", "P", "S", "-", "L", "O", "C">>>>>>
    /\ enTokens = <<<<<<"N", "e", "w">>, <<"N", "N", "P", "-", "L", "O", "C">>>>, <<<<"Y", "o", "r", "k">>, <<"N", "N", "P", "-", "L", "O", "C">>>>>>

\* C25: whenever a modifier is pending, the most recent assessment is the
\* one created for (or containing) the pending modifier word, so that a
\* following known word is folded into the modifier's own assessment and
\* never into an emoticon (MOOD) or other assessment created after it.
C25_PendingModifierOwnsLast ==
    snPc = "scan" /\ snM # NONE =>
        /\ Len(snA) > 0
        /\ snM[1] \in Range(snA[Len(snA)].w)

\* C27: for every sequence of (word, pos) pairs and either negation
\* setting, the accesses to the most recent assessment (a known word after
\* a modifier, a negation after a modifier, "!") happen on a non-empty
\* list: a pending modifier implies that an assessment exists, and the scan
\* never fails on an empty list.
C27_LastAssessmentExists ==
    /\ snPc = "scan" /\ snM # NONE => Len(snA) > 0
    /\ snPc = "error" => Len(snA) > 0

\* "very good" has been scanned: good was folded into the assessment of the
\* modifier very, and very was pending when it came.
C27_Witness ==
    /\ snPc = "scan"
    /\ snWords = <<<<W_very, PosNone>>, <<W_good, PosNone>>>>
    /\ Len(snA) = 1
    /\ snA[1].w = <<W_very, W_good>>

=============================================================================
